---- MODULE Spec2Model ----
(***************************************************************************)
(* Project Echo: backend resolution and fallback.                          *)
(*                                                                         *)
(* Three entry points resolve an inference backend:                        *)
(*   "lib"  - core/cpu_fallback.py  load_cpu_model(path, preferred_backend)*)
(*   "demo" - experiments/vision_demo.py main (audio_demo.py main is the   *)
(*            same resolution code, line for line)                         *)
(*   "stub" - experiments/demo_inference.py main                           *)
(* The file system, the platform and the command line are inputs fixed in  *)
(* Init.  What an import or a runtime constructor answers is chosen when   *)
(* the code first asks and remembered in env, so that asking twice (in one *)
(* run or in a repeated run) gives the same answer.                        *)
(*                                                                         *)
(* Beside the resolution runs (Spec, SpecAgain) the module holds the       *)
(* library functions called on their own:                                  *)
(*   SpecProbes     - the copies of is_linux_arm and the availability      *)
(*                    probes                                               *)
(*   SpecHandle     - CpuModel from load_cpu_model or from its             *)
(*                    constructor, and predict                             *)
(*   SpecPreprocess - core/preprocessing.py preprocess_image and           *)
(*                    preprocess_audio, step by step                       *)
(* and the command-line tools:                                             *)
(*   SpecDeploy     - tools/deploy.py deploy_model, called several times   *)
(*                    in a row on one runtime directory                    *)
(*   SpecDiag       - scripts/check_akida.py main                          *)
(***************************************************************************)
EXTENDS Integers, Sequences, FiniteSets, TLC

\* Longest directory listing and number of well-known locations that exist.
MaxListing == 1
MaxPresent == 2

(***************************************************************************)
(* Paths and the file system                                               *)
(***************************************************************************)
NoPath == [dir |-> "", stem |-> "", ext |-> "", exists |-> FALSE]

\* search_paths of find_cpu_model, in order.
search_paths == <<"./build", "./runtime/models", "../build", "../runtime/models">>

\* akida_paths of main, in order.
akida_paths ==
    << [dir |-> "./build", stem |-> "demo_model", ext |-> ".ez", exists |-> TRUE],
       [dir |-> "./runtime/models", stem |-> "demo_model", ext |-> ".ez", exists |-> TRUE],
       [dir |-> "../build", stem |-> "demo_model", ext |-> ".ez", exists |-> TRUE] >>

\* os.path.join("build", "demo_model.ez") of demo_inference, relative to the
\* working directory like "./build".
stub_model_path == [dir |-> "./build", stem |-> "demo_model", ext |-> ".ez", exists |-> TRUE]

Dirs == {search_paths[i] : i \in 1..Len(search_paths)}

FileNames ==
    { [stem |-> "demo_model", ext |-> ".ez"],
      [stem |-> "a", ext |-> ".onnx"],
      [stem |-> "m", ext |-> ".tflite"] }

\* The listings os.listdir can return: files in directory order, no file twice.
Listings ==
    { s \in UNION { [1..k -> FileNames] : k \in 0..MaxListing } :
        \A i, j \in DOMAIN s : i # j => s[i] # s[j] }

Absent == [kind |-> "absent", files |-> <<>>]
NotDir == [kind |-> "notdir", files |-> <<>>]
PresentStates == {NotDir} \cup { [kind |-> "dir", files |-> s] : s \in Listings }

\* File systems with at most n of the well-known locations present.
FsStates(n) ==
    UNION { { [d \in Dirs |-> IF d \in P THEN f[d] ELSE Absent] : f \in [P -> PresentStates] }
            : P \in { Q \in SUBSET Dirs : Cardinality(Q) <= n } }

\* File systems in which at most "./build" is present.
OnlyBuild == { f \in FsStates(1) : \A d \in Dirs \ {"./build"} : f[d] = Absent }

\* os.path.exists(path) for a path below a well-known directory.
path_exists(fsys, p) ==
    /\ p.dir \in Dirs
    /\ fsys[p.dir].kind = "dir"
    /\ \E i \in DOMAIN fsys[p.dir].files :
          fsys[p.dir].files[i] = [stem |-> p.stem, ext |-> p.ext]

\* file.endswith(ext): the file name ends with exactly these characters.
endswith(file, ext) == file.ext = ext

\* str.lower() on the extensions that occur.
Lower(s) ==
    CASE s = ".ONNX" -> ".onnx"
      [] s = ".TFLITE" -> ".tflite"
      [] OTHER -> s

(***************************************************************************)
(* Platform probe                                                          *)
(***************************************************************************)
UpperLetters ==
    << "A", "B", "C", "D", "E", "F", "G", "H", "I", "J", "K", "L", "M",
       "N", "O", "P", "Q", "R", "S", "T", "U", "V", "W", "X", "Y", "Z" >>
LowerLetters ==
    << "a", "b", "c", "d", "e", "f", "g", "h", "i", "j", "k", "l", "m",
       "n", "o", "p", "q", "r", "s", "t", "u", "v", "w", "x", "y", "z" >>

\* str.lower() on one character.
LowerChar(c) ==
    IF \E i \in DOMAIN UpperLetters : UpperLetters[i] = c
    THEN LowerLetters[CHOOSE i \in DOMAIN UpperLetters : UpperLetters[i] = c]
    ELSE c

LowerSeq(s) == [i \in DOMAIN s |-> LowerChar(s[i])]

\* needle in haystack, both sequences of characters.
Contains(haystack, needle) ==
    \E i \in 1..(Len(haystack) - Len(needle) + 1) :
        SubSeq(haystack, i, i + Len(needle) - 1) = needle

is_linux_arm(p) ==
    /\ p.system = "Linux"
    /\ \/ Contains(LowerSeq(p.machine), <<"a", "r", "m">>)
       \/ Contains(LowerSeq(p.machine), <<"a", "a", "r", "c", "h", "6", "4">>)

\* is_linux_arm that tests the machine string as reported, without lower().
is_linux_arm_CaseSensitive(p) ==
    LET system == p.system
        machine == p.machine
    IN  /\ system = "Linux"
        /\ \/ Contains(machine, <<"a", "r", "m">>)
           \/ Contains(machine, <<"a", "a", "r", "c", "h", "6", "4">>)

\* scripts/check_akida.py: the machine string is lowered once, into a local.
is_linux_arm_check_akida(p) ==
    LET system == p.system
        machine == LowerSeq(p.machine)
    IN  /\ system = "Linux"
        /\ \/ Contains(machine, <<"a", "r", "m">>)
           \/ Contains(machine, <<"a", "a", "r", "c", "h", "6", "4">>)

\* tools/build_model.py
is_linux_arm_build_model(p) ==
    /\ p.system = "Linux"
    /\ \/ Contains(LowerSeq(p.machine), <<"a", "r", "m">>)
       \/ Contains(LowerSeq(p.machine), <<"a", "a", "r", "c", "h", "6", "4">>)

\* experiments/demo_inference.py
is_linux_arm_demo_inference(p) ==
    /\ p.system = "Linux"
    /\ \/ Contains(LowerSeq(p.machine), <<"a", "r", "m">>)
       \/ Contains(LowerSeq(p.machine), <<"a", "a", "r", "c", "h", "6", "4">>)

\* experiments/audio_demo.py
is_linux_arm_audio_demo(p) ==
    /\ p.system = "Linux"
    /\ \/ Contains(LowerSeq(p.machine), <<"a", "r", "m">>)
       \/ Contains(LowerSeq(p.machine), <<"a", "a", "r", "c", "h", "6", "4">>)

Platforms ==
    { [system |-> "Linux", machine |-> <<"a", "a", "r", "c", "h", "6", "4">>],
      [system |-> "Linux", machine |-> <<"x", "8", "6", "_", "6", "4">>],
      [system |-> "Darwin", machine |-> <<"a", "r", "m", "6", "4">>] }

(***************************************************************************)
(* What the environment answers                                            *)
(***************************************************************************)
ImportOutcomes == {"ok", "ImportError", "OtherError"}
CallOutcomes == {"ok", "fail"}

EnvFields ==
    { "media", "akida_import", "akida_ctor", "onnx_import", "tflite_runtime_import",
      "tensorflow_import", "tf_has_lite", "onnx_session", "tflite_interpreter" }

EnvUnknown == [f \in EnvFields |-> "unk"]

\* The answers still possible for field f: the remembered one, or any of S.
Outcomes(e, f, S) == IF e[f] = "unk" THEN S ELSE {e[f]}
Learn(e, f, v) == [e EXCEPT ![f] = v]

\* A runtime constructor can only succeed on a file that exists.
LoadOutcomes(p) == IF p.exists THEN CallOutcomes ELSE {"fail"}

(***************************************************************************)
(* Model handles                                                           *)
(***************************************************************************)
NoModel == [cls |-> "None", backend |-> "", obj |-> ""]
CpuModel(backend, model_obj) == [cls |-> "CpuModel", backend |-> backend, obj |-> model_obj]
AkidaModel == [cls |-> "AkidaModel", backend |-> "", obj |-> "akida.Model"]
DummyCPUModel == [cls |-> "DummyCPUModel", backend |-> "", obj |-> ""]

NoRet == [kind |-> "none", exc |-> "", model |-> NoModel]
Return(m) == [kind |-> "return", exc |-> "", model |-> m]
Raise(e) == [kind |-> "raise", exc |-> e, model |-> NoModel]

DummyOutputShape == <<10>>
ModelOutputShapes == { <<1, 1000>> }
InputShapes == { <<1, 224, 224, 3>>, <<1, 16000>> }
StubInputShape == <<1, 128>>

VARIABLES
    entry,          \* which entry point runs
    pc,             \* position in the code
    run,            \* "first", or "again" when the program was started again
    prev,           \* results of the earlier runs
    plat,           \* platform.system(), platform.machine()
    fs,             \* the well-known directories
    env,            \* answers of imports and constructors so far
    args_model,     \* --model, or the path argument of load_cpu_model
    args_backend,   \* the preferred_backend argument of load_cpu_model
    has_akida, model_path, backend, model,      \* locals of main
    mode,                                       \* local of demo_inference main
    lcm_path, lcm_preferred, lcm_backend, lcm_ret,  \* a call of load_cpu_model
    cands,          \* (kind, path) pairs selected, in order
    attempts,       \* runtime constructors called, in order, with outcome
    consulted,      \* what load_cpu_model looked at to determine the backend
    raised,         \* exception or exit that ended the resolution
    exit_code,      \* status of the process, "" while it runs
    input_shape, output_shape,
    inferred,       \* branch of the inference step that ran
    arm,            \* what each copy of is_linux_arm returned, "unk" before its call
    probed,         \* what each availability probe returned or raised
    pp_pc,          \* position in a call of preprocess_image / preprocess_audio
    pp_args,        \* arguments of the call
    pp_file,        \* the file at path
    pp_lib,         \* which decoding libraries import
    img_array,      \* local of preprocess_image
    audio,          \* local of preprocess_audio
    decoded,        \* audio as the decoder delivered it
    forced,         \* audio after the trim-or-pad step
    pp_ret,         \* what the call returned or raised
    dep_pc,         \* position in a call of deploy_model
    dep_args,       \* arguments of the call
    dep_ret,        \* what the call returned
    dep_fail,       \* which step of the call failed
    manifest,       \* <runtime_dir>/manifest.json
    rt_models,      \* the files in <runtime_dir>/models, by name
    models_dir,     \* whether <runtime_dir>/models exists
    calls,          \* calls of deploy_model so far, the clock of deployedAt
    before,         \* manifest and runtime directory when the call began
    deployed,       \* per model_id, the content last deployed with success
    diag_pc,        \* position in check_akida.py main
    sdk,            \* what the SDK import and devices() answer
    diag_called,    \* the checks main has run, in order
    diag_exit       \* exit status of check_akida.py, "" while it runs

vars ==
    << entry, pc, run, prev, plat, fs, env, args_model, args_backend,
       has_akida, model_path, backend, model, mode,
       lcm_path, lcm_preferred, lcm_backend, lcm_ret,
       cands, attempts, consulted, raised, exit_code,
       input_shape, output_shape, inferred,
       arm, probed, pp_pc, pp_args, pp_file, pp_lib, img_array, audio, decoded,
       forced, pp_ret,
       dep_pc, dep_args, dep_ret, dep_fail, manifest, rt_models, models_dir, calls,
       before, deployed,
       diag_pc, sdk, diag_called, diag_exit >>

inputs == << entry, plat, fs, args_model, args_backend >>
locals == << has_akida, model_path, backend, model, mode >>
lcm == << lcm_path, lcm_preferred, lcm_backend, lcm_ret >>
tensors == << input_shape, output_shape, inferred >>
runs == << run, prev >>
probing == << arm, probed >>
preprocessing == << pp_pc, pp_args, pp_file, pp_lib, img_array, audio, decoded, forced, pp_ret >>
\* Functions of the library called on their own, outside a resolution run.
direct == << probing, preprocessing >>
deploying ==
    << dep_pc, dep_args, dep_ret, dep_fail, manifest, rt_models, models_dir, calls,
       before, deployed >>
diagnosing == << diag_pc, sdk, diag_called, diag_exit >>
\* The command-line tools beside the inference code.
tools == << deploying, diagnosing >>

(***************************************************************************)
(* The probes called on their own                                          *)
(***************************************************************************)
\* platform.system() and platform.machine() as hosts report them, with
\* machine strings in several spellings.
Systems == {"Linux", "linux", "Darwin", "Windows"}
Machines ==
    { <<"a", "a", "r", "c", "h", "6", "4">>,
      <<"A", "A", "R", "C", "H", "6", "4">>,
      <<"A", "a", "r", "c", "H", "6", "4">>,
      <<"a", "r", "m", "v", "7", "l">>,
      <<"A", "R", "M", "6", "4">>,
      <<"a", "r", "m", "6", "4">>,
      <<"x", "8", "6", "_", "6", "4">>,
      <<"A", "M", "D", "6", "4">>,
      <<"a", "r", "c", "h", "6", "4">>,
      <<>> }
AllPlatforms == [system : Systems, machine : Machines]

\* The files that carry a copy of is_linux_arm.
Copies == {"check_akida", "build_model", "demo_inference", "vision_demo", "audio_demo"}

\* The availability probes.
Probes == {"check_onnx_available", "check_tflite_available", "attempt_import_akida"}

\* A Python bool as text.
Bool(b) == IF b THEN "True" ELSE "False"

\* No resolution run is going on.
NoRun(e) ==
    /\ entry = e /\ pc = "none" /\ run = "first" /\ prev = <<>>
    /\ fs = [d \in Dirs |-> Absent]
    /\ args_model = NoPath /\ args_backend = "None"
    /\ has_akida = FALSE /\ model_path = NoPath /\ backend = "None"
    /\ model = NoModel /\ mode = "None"
    /\ lcm_path = NoPath /\ lcm_preferred = "None"
    /\ lcm_backend = "None" /\ lcm_ret = NoRet
    /\ cands = <<>> /\ attempts = <<>> /\ consulted = {}
    /\ raised = "none" /\ exit_code = ""
    /\ input_shape = <<>> /\ output_shape = <<>> /\ inferred = "none"

\* No probe has been called on its own.
NoProbing ==
    /\ arm = [c \in Copies |-> "unk"]
    /\ probed = [p \in Probes |-> "unk"]

(***************************************************************************)
(* core/preprocessing.py: arguments, files and arrays                      *)
(***************************************************************************)
\* Largest side of a source image and of target_shape.
MaxSide == 2
\* Longest waveform a decoder delivers.
MaxSamples == 3
\* Largest sample_rate.
MaxRate == 3
\* Durations are whole multiples of 1/DurUnit seconds, up to MaxDur of them
\* either side of zero.
DurUnit == 4
MaxDur == 5

Sides == 1..MaxSide
Shapes2 == { <<a, b>> : a \in Sides, b \in Sides }

Decoders == {"PIL", "cv2", "librosa", "scipy"}
AllInstalled == [d \in Decoders |-> "ok"]

\* An image file: PIL reports size as (width, height) and a mode.
ImageModes == {"RGB", "L", "RGBA"}
NoFile == [kind |-> "none", size |-> <<>>, mode |-> "", samples |-> <<>>]
ImageFiles == { [kind |-> "image", size |-> s, mode |-> m, samples |-> <<>>] :
                    s \in Shapes2, m \in ImageModes }
\* A file no decoder can read.
Undecodable == [kind |-> "other", size |-> <<>>, mode |-> "", samples |-> <<>>]

\* 8-bit pixel values the largest pixel of an image can take.
PixelLevels == {0, 128, 255}

\* Sample amplitudes, negative ones larger in magnitude than positive ones.
Samples == {-2, 0, 1}
RECURSIVE Waveforms(_)
Waveforms(n) ==
    IF n = 0 THEN { <<>> }
    ELSE Waveforms(n - 1) \cup
         { Append(w, s) : w \in { v \in Waveforms(n - 1) : Len(v) = n - 1 }, s \in Samples }
\* An audio file, held as the mono waveform at sample_rate that decoding and
\* resampling arrive at.
AudioFiles == { [kind |-> "audio", size |-> <<>>, mode |-> "", samples |-> w] :
                    w \in Waveforms(MaxSamples) }

\* duration: None, or q/DurUnit seconds.
NoDuration == [given |-> FALSE, q |-> 0]
Durations == {NoDuration} \cup { [given |-> TRUE, q |-> q] : q \in (-MaxDur)..MaxDur }

NoArgs ==
    [fn |-> "none", target_shape |-> <<>>, grayscale |-> FALSE, normalize |-> FALSE,
     sample_rate |-> 0, duration |-> NoDuration]
ImageArgs ==
    { [fn |-> "preprocess_image", target_shape |-> t, grayscale |-> g, normalize |-> n,
       sample_rate |-> 0, duration |-> NoDuration] :
        t \in Shapes2, g \in BOOLEAN, n \in BOOLEAN }
AudioArgs ==
    { [fn |-> "preprocess_audio", target_shape |-> <<>>, grayscale |-> FALSE,
       normalize |-> n, sample_rate |-> r, duration |-> d] :
        n \in BOOLEAN, r \in 1..MaxRate, d \in Durations }

\* A numpy array of pixels: its shape, its largest value hi and the divisor
\* applied to every value (1 until normalized).
NoArray == [shape |-> <<>>, hi |-> 0, den |-> 1]
\* A numpy array of samples: the i-th value is samples[i] * unit, or
\* samples[i] / m once normalized by max_val = m * unit.  unit "nan" stands
\* for the result of 0/0.
NoAudio == [samples |-> <<>>, unit |-> "1", m |-> 0]

NoPreprocessing ==
    /\ pp_pc = "none" /\ pp_args = NoArgs /\ pp_file = NoFile /\ pp_lib = AllInstalled
    /\ img_array = NoArray /\ audio = NoAudio /\ decoded = <<>> /\ forced = <<>>
    /\ pp_ret = [kind |-> "none", exc |-> "", shape |-> <<>>]

(***************************************************************************)
(* tools/deploy.py: arguments, files and the manifest                      *)
(***************************************************************************)
\* Calls of deploy_model in a row.
MaxDeploys == 2

ModelIds == {"vision_v1", "audio_v1"}

\* --model-path: two builds whose files bear the same name, and a path with
\* no file behind it.
SrcPaths ==
    { [dir |-> "build/a", name |-> "model.onnx"],
      [dir |-> "build/b", name |-> "model.onnx"],
      [dir |-> "build/a", name |-> "other.onnx"],
      [dir |-> "build/a", name |-> "missing.onnx"] }

\* The bytes of the file at a source path, "none" when there is no file.
SrcContent(p) ==
    CASE p.dir = "build/a" /\ p.name = "model.onnx" -> "bytes of build/a/model.onnx"
      [] p.dir = "build/b" /\ p.name = "model.onnx" -> "bytes of build/b/model.onnx"
      [] p.dir = "build/a" /\ p.name = "other.onnx" -> "bytes of build/a/other.onnx"
      [] OTHER -> "none"

\* Path(model_path).name
Names == { p.name : p \in SrcPaths }

\* --backend as a caller of deploy_model can pass it.
DeployBackends == {"onnx", "cpu", "gpu"}
valid_backends == {"akida", "onnx", "tflite", "cpu"}

NoDeployArgs == [model_id |-> "", model_path |-> [dir |-> "", name |-> ""], backend |-> ""]
DeployArgs == [model_id : ModelIds, model_path : SrcPaths, backend : DeployBackends]

\* An entry of manifest["models"]; NoEntry where the key is absent.
NoEntry ==
    [id |-> "", name |-> "", backend |-> "", path |-> [dir |-> "", name |-> ""],
     deployedAt |-> 0]

\* manifest.json: absent, a JSON object with or without the key "models", or
\* a file that is no JSON.
NoModels == [m \in ModelIds |-> NoEntry]
ManifestAbsent == [kind |-> "absent", has_models |-> FALSE, models |-> NoModels]
ManifestEmpty == [kind |-> "json", has_models |-> FALSE, models |-> NoModels]
ManifestCorrupt == [kind |-> "corrupt", has_models |-> FALSE, models |-> NoModels]

NoFiles == [n \in Names |-> "none"]

NoDeploy ==
    /\ dep_pc = "none" /\ dep_args = NoDeployArgs
    /\ dep_ret = "none" /\ dep_fail = "none"
    /\ manifest = ManifestAbsent /\ rt_models = NoFiles /\ models_dir = FALSE
    /\ calls = 0
    /\ before = [manifest |-> ManifestAbsent, rt_models |-> NoFiles, models_dir |-> FALSE]
    /\ deployed = [m \in ModelIds |-> "none"]

(***************************************************************************)
(* scripts/check_akida.py: what the host answers                           *)
(***************************************************************************)
\* devices(): a list without a device, a list with devices, a list whose
\* device cannot be described, or an exception.
DeviceOutcomes == {"empty", "found", "describe_fails", "raise"}
SdkStates == [import : ImportOutcomes, devices : DeviceOutcomes]

NoDiag ==
    /\ diag_pc = "none"
    /\ sdk = [import |-> "ok", devices |-> "empty"]
    /\ diag_called = <<>>
    /\ diag_exit = ""

UserExts == {".onnx", ".ONNX", ".tflite", ".lite", ".ez", ".bin"}
UserPaths ==
    { [dir |-> "user", stem |-> "model", ext |-> e, exists |-> x] :
        e \in UserExts, x \in BOOLEAN }

\* preferred_backend: None, the empty string, or a kind.
Preferreds == {"None", "", "onnx", "tflite", "akida", "dummy"}
Truthy(s) == s \notin {"None", ""}

FirstPc(e) ==
    CASE e = "lib" -> "lcm_determine"
      [] e = "demo" -> "validate"
      [] e = "stub" -> "stub_detect"

\* The state in which a run starts.
StartOfRun ==
    /\ pc = FirstPc(entry)
    /\ has_akida = FALSE /\ model_path = NoPath /\ backend = "None"
    /\ model = NoModel /\ mode = "None"
    /\ lcm_path = (IF entry = "lib" THEN args_model ELSE NoPath)
    /\ lcm_preferred = (IF entry = "lib" THEN args_backend ELSE "None")
    /\ lcm_backend = "None" /\ lcm_ret = NoRet
    /\ cands = <<>> /\ attempts = <<>> /\ consulted = {}
    /\ raised = "none" /\ exit_code = ""
    /\ input_shape = <<>> /\ output_shape = <<>> /\ inferred = "none"

Init ==
    /\ \/ /\ entry = "lib"
          /\ args_model \in UserPaths /\ args_backend \in Preferreds
          /\ plat \in Platforms /\ fs = [d \in Dirs |-> Absent]
       \/ /\ entry = "demo"
          /\ args_model = NoPath /\ args_backend = "None"
          /\ plat \in Platforms /\ fs \in FsStates(MaxPresent)
       \/ /\ entry = "demo"
          /\ args_model \in UserPaths /\ args_backend = "None"
          /\ plat \in Platforms /\ fs \in OnlyBuild
       \/ /\ entry = "stub"
          /\ args_model = NoPath /\ args_backend = "None"
          /\ plat \in Platforms /\ fs \in OnlyBuild
    /\ run = "first" /\ prev = <<>>
    /\ env = EnvUnknown
    /\ StartOfRun
    /\ NoProbing /\ NoPreprocessing
    /\ NoDeploy /\ NoDiag

(***************************************************************************)
(* Availability probes and loaders, as the sets of outcomes they can have  *)
(***************************************************************************)
\* core/cpu_fallback.py check_onnx_available: only ImportError is caught.
check_onnx_available(e) ==
    { [res |-> (CASE o = "ok" -> "True" [] o = "ImportError" -> "False" [] OTHER -> "raise"),
       env |-> Learn(e, "onnx_import", o)] :
        o \in Outcomes(e, "onnx_import", ImportOutcomes) }

\* core/cpu_fallback.py check_tflite_available: tflite_runtime first, then
\* tensorflow and its "lite" attribute; only ImportError is caught.
check_tflite_available(e) ==
    UNION {
        IF rt = "ok" THEN
            { [res |-> "True", env |-> Learn(e, "tflite_runtime_import", rt)] }
        ELSE IF rt = "OtherError" THEN
            { [res |-> "raise", env |-> Learn(e, "tflite_runtime_import", rt)] }
        ELSE
            LET e1 == Learn(e, "tflite_runtime_import", rt) IN
            UNION {
                IF tf = "ImportError" THEN
                    { [res |-> "False", env |-> Learn(e1, "tensorflow_import", tf)] }
                ELSE IF tf = "OtherError" THEN
                    { [res |-> "raise", env |-> Learn(e1, "tensorflow_import", tf)] }
                ELSE
                    LET e2 == Learn(e1, "tensorflow_import", tf) IN
                    { [res |-> (IF l = "yes" THEN "True" ELSE "False"),
                       env |-> Learn(e2, "tf_has_lite", l)] :
                        l \in Outcomes(e2, "tf_has_lite", {"yes", "no"}) }
                : tf \in Outcomes(e1, "tensorflow_import", ImportOutcomes) }
        : rt \in Outcomes(e, "tflite_runtime_import", ImportOutcomes) }

\* attempt_import_akida: every exception is caught.
attempt_import_akida(e) ==
    { [ok |-> (r = "ok"), env |-> Learn(e, "akida_import", r)] :
        r \in Outcomes(e, "akida_import", ImportOutcomes) }

\* vision_demo.py load_akida_model(model_path): returns the model or raises.
\* called tells whether the AkidaModel constructor was reached.
load_akida_model(e, fsys, p) ==
    UNION {
        IF ~a.ok THEN
            { [ok |-> FALSE, called |-> FALSE, exc |-> "RuntimeError", env |-> a.env] }
        ELSE IF ~path_exists(fsys, p) THEN
            { [ok |-> FALSE, called |-> FALSE, exc |-> "FileNotFoundError", env |-> a.env] }
        ELSE
            { [ok |-> (c = "ok"), called |-> TRUE,
               exc |-> (IF c = "ok" THEN "" ELSE "Exception"),
               env |-> Learn(a.env, "akida_ctor", c)] :
                c \in Outcomes(a.env, "akida_ctor", CallOutcomes) }
        : a \in attempt_import_akida(e) }

\* Index of the first file of a listing whose name ends with ext, 0 if none.
FirstWith(files, ext) ==
    LET I == { i \in DOMAIN files : endswith(files[i], ext) }
    IN  IF I = {} THEN 0 ELSE CHOOSE i \in I : \A j \in I : i <= j

RECURSIVE find_cpu_model_from(_, _)
find_cpu_model_from(fsys, i) ==
    IF i > Len(search_paths) THEN [status |-> "none", path |-> NoPath]
    ELSE
        LET base_path == search_paths[i]
            d == fsys[base_path]
            o == FirstWith(d.files, ".onnx")
            t == FirstWith(d.files, ".tflite")
            hit(k) == [status |-> "ok",
                       path |-> [dir |-> base_path, stem |-> d.files[k].stem,
                                 ext |-> d.files[k].ext, exists |-> TRUE]]
        IN  IF d.kind = "absent" THEN find_cpu_model_from(fsys, i + 1)
            ELSE IF d.kind = "notdir" THEN [status |-> "raise", path |-> NoPath]
            ELSE IF o > 0 THEN hit(o)
            ELSE IF t > 0 THEN hit(t)
            ELSE find_cpu_model_from(fsys, i + 1)

\* find_cpu_model(): directories outermost, extensions inside.  os.listdir
\* raises on a location that exists and is no directory.
find_cpu_model(fsys) == find_cpu_model_from(fsys, 1)

\* The first of akida_paths that exists, NoPath if none.
first_akida_path(fsys) ==
    LET I == { i \in DOMAIN akida_paths : path_exists(fsys, akida_paths[i]) }
    IN  IF I = {} THEN NoPath ELSE akida_paths[CHOOSE i \in I : \A j \in I : i <= j]

\* predict on whatever main holds as model: the outcomes it can have.
predict(m) ==
    CASE m.cls = "None" ->
            { [ok |-> FALSE, shape |-> <<>>, exc |-> "AttributeError"] }
      [] m.cls = "DummyCPUModel" ->
            { [ok |-> TRUE, shape |-> DummyOutputShape, exc |-> ""] }
      [] m.cls = "AkidaModel" ->
            { [ok |-> TRUE, shape |-> s, exc |-> ""] : s \in ModelOutputShapes }
            \cup { [ok |-> FALSE, shape |-> <<>>, exc |-> "Exception"] }
      [] m.cls = "CpuModel" ->
            IF m.backend \in {"onnx", "tflite"} THEN
                { [ok |-> TRUE, shape |-> s, exc |-> ""] : s \in ModelOutputShapes }
                \cup { [ok |-> FALSE, shape |-> <<>>, exc |-> "Exception"] }
            ELSE { [ok |-> FALSE, shape |-> <<>>, exc |-> "ValueError"] }

(***************************************************************************)
(* load_cpu_model(path, preferred_backend)                                 *)
(***************************************************************************)
\* LcmDetermine that looks at the extension before preferred_backend.
LcmDetermine_ExtFirst ==
    /\ pc = "lcm_determine"
    /\ LET ext == Lower(lcm_path.ext)
           b == IF ext = ".onnx" THEN "onnx"
                ELSE IF ext \in {".tflite", ".lite"} THEN "tflite"
                ELSE IF Truthy(lcm_preferred) THEN lcm_preferred
                ELSE "onnx"
       IN  /\ lcm_backend' = b
           /\ consulted' = {"ext", "preferred"}
           /\ cands' = (IF entry = "lib" THEN Append(cands, <<b, lcm_path>>) ELSE cands)
    /\ pc' = "lcm_load"
    /\ UNCHANGED << tools, direct, inputs, locals, runs, env, lcm_path, lcm_preferred, lcm_ret, attempts,
                    raised, exit_code, tensors >>

\* Lines 105-125: determine the backend.
LcmDetermine ==
    /\ pc = "lcm_determine"
    /\ LET ext == Lower(lcm_path.ext)
           decided(b, seen) ==
               /\ lcm_backend' = b
               /\ consulted' = seen
               /\ cands' = (IF entry = "lib" THEN Append(cands, <<b, lcm_path>>) ELSE cands)
               /\ lcm_ret' = lcm_ret
               /\ pc' = "lcm_load"
           failed(x, seen) ==
               /\ lcm_backend' = lcm_backend
               /\ consulted' = seen
               /\ cands' = cands
               /\ lcm_ret' = Raise(x)
               /\ pc' = "lcm_return"
       IN  IF Truthy(lcm_preferred) THEN
               decided(lcm_preferred, {"preferred"}) /\ env' = env
           ELSE IF ext = ".onnx" THEN
               decided("onnx", {"preferred", "ext"}) /\ env' = env
           ELSE IF ext \in {".tflite", ".lite"} THEN
               decided("tflite", {"preferred", "ext"}) /\ env' = env
           ELSE
               \E a \in check_onnx_available(env) :
                   LET seen == {"preferred", "ext", "available"} IN
                   IF a.res = "True" THEN decided("onnx", seen) /\ env' = a.env
                   ELSE IF a.res = "raise" THEN failed("OtherError", seen) /\ env' = a.env
                   ELSE \E b \in check_tflite_available(a.env) :
                       /\ env' = b.env
                       /\ IF b.res = "True" THEN decided("tflite", seen)
                          ELSE IF b.res = "raise" THEN failed("OtherError", seen)
                          ELSE failed("RuntimeError", seen)
    /\ UNCHANGED << tools, direct, inputs, locals, runs, lcm_path, lcm_preferred, attempts,
                    raised, exit_code, tensors >>

\* LcmLoadOnnx that falls through to the tflite branch when the session cannot
\* be constructed, instead of raising.
LcmLoadOnnx_FallsThrough ==
    /\ pc = "lcm_load" /\ lcm_backend = "onnx"
    /\ \E a \in check_onnx_available(env) :
        IF a.res = "False" THEN
            /\ env' = a.env /\ lcm_ret' = Raise("RuntimeError") /\ attempts' = attempts
            /\ pc' = "lcm_return" /\ lcm_backend' = lcm_backend
        ELSE IF a.res = "raise" THEN
            /\ env' = a.env /\ lcm_ret' = Raise("OtherError") /\ attempts' = attempts
            /\ pc' = "lcm_return" /\ lcm_backend' = lcm_backend
        ELSE
            \E s \in Outcomes(a.env, "onnx_session", LoadOutcomes(lcm_path)) :
                /\ env' = Learn(a.env, "onnx_session", s)
                /\ attempts' = Append(attempts,
                       [kind |-> "onnx", path |-> lcm_path, ok |-> (s = "ok")])
                /\ IF s = "ok" THEN
                       /\ lcm_ret' = Return(CpuModel("onnx", "InferenceSession"))
                       /\ pc' = "lcm_return" /\ lcm_backend' = lcm_backend
                   ELSE
                       /\ lcm_ret' = lcm_ret
                       /\ pc' = "lcm_load" /\ lcm_backend' = "tflite"
    /\ UNCHANGED << tools, direct, inputs, locals, runs, lcm_path, lcm_preferred,
                    cands, consulted, raised, exit_code, tensors >>

\* Lines 128-140: the onnx branch.
LcmLoadOnnx ==
    /\ pc = "lcm_load" /\ lcm_backend = "onnx"
    /\ \E a \in check_onnx_available(env) :
        IF a.res = "False" THEN
            /\ env' = a.env /\ lcm_ret' = Raise("RuntimeError") /\ attempts' = attempts
        ELSE IF a.res = "raise" THEN
            /\ env' = a.env /\ lcm_ret' = Raise("OtherError") /\ attempts' = attempts
        ELSE
            \E s \in Outcomes(a.env, "onnx_session", LoadOutcomes(lcm_path)) :
                /\ env' = Learn(a.env, "onnx_session", s)
                /\ attempts' = Append(attempts,
                       [kind |-> "onnx", path |-> lcm_path, ok |-> (s = "ok")])
                /\ lcm_ret' = (IF s = "ok" THEN Return(CpuModel("onnx", "InferenceSession"))
                               ELSE Raise("RuntimeError"))
    /\ pc' = "lcm_return"
    /\ UNCHANGED << tools, direct, inputs, locals, runs, lcm_path, lcm_preferred, lcm_backend,
                    cands, consulted, raised, exit_code, tensors >>

\* LcmLoadTflite that records the kind the extension suggests on the handle,
\* whatever interpreter it constructed.
LcmLoadTflite_KindFromExtension ==
    /\ pc = "lcm_load" /\ lcm_backend = "tflite"
    /\ \E a \in check_tflite_available(env) :
        IF a.res = "False" THEN
            /\ env' = a.env /\ lcm_ret' = Raise("RuntimeError") /\ attempts' = attempts
        ELSE IF a.res = "raise" THEN
            /\ env' = a.env /\ lcm_ret' = Raise("OtherError") /\ attempts' = attempts
        ELSE
            \E s \in Outcomes(a.env, "tflite_interpreter", LoadOutcomes(lcm_path)) :
                /\ env' = Learn(a.env, "tflite_interpreter", s)
                /\ attempts' = Append(attempts,
                       [kind |-> "tflite", path |-> lcm_path, ok |-> (s = "ok")])
                /\ lcm_ret' = (IF s = "ok"
                               THEN Return(CpuModel(IF Lower(lcm_path.ext) = ".onnx"
                                                    THEN "onnx" ELSE "tflite",
                                                    "Interpreter"))
                               ELSE Raise("RuntimeError"))
    /\ pc' = "lcm_return"
    /\ UNCHANGED << tools, direct, inputs, locals, runs, lcm_path, lcm_preferred, lcm_backend,
                    cands, consulted, raised, exit_code, tensors >>

\* Lines 142-162: the tflite branch.  One interpreter is constructed, from
\* tflite_runtime or, when that import fails, from tensorflow.
LcmLoadTflite ==
    /\ pc = "lcm_load" /\ lcm_backend = "tflite"
    /\ \E a \in check_tflite_available(env) :
        IF a.res = "False" THEN
            /\ env' = a.env /\ lcm_ret' = Raise("RuntimeError") /\ attempts' = attempts
        ELSE IF a.res = "raise" THEN
            /\ env' = a.env /\ lcm_ret' = Raise("OtherError") /\ attempts' = attempts
        ELSE
            \E s \in Outcomes(a.env, "tflite_interpreter", LoadOutcomes(lcm_path)) :
                /\ env' = Learn(a.env, "tflite_interpreter", s)
                /\ attempts' = Append(attempts,
                       [kind |-> "tflite", path |-> lcm_path, ok |-> (s = "ok")])
                /\ lcm_ret' = (IF s = "ok" THEN Return(CpuModel("tflite", "Interpreter"))
                               ELSE Raise("RuntimeError"))
    /\ pc' = "lcm_return"
    /\ UNCHANGED << tools, direct, inputs, locals, runs, lcm_path, lcm_preferred, lcm_backend,
                    cands, consulted, raised, exit_code, tensors >>

\* Lines 164-165: any other backend string.
LcmUnsupported ==
    /\ pc = "lcm_load" /\ lcm_backend \notin {"onnx", "tflite"}
    /\ lcm_ret' = Raise("ValueError")
    /\ pc' = "lcm_return"
    /\ UNCHANGED << tools, direct, inputs, locals, runs, env, lcm_path, lcm_preferred, lcm_backend,
                    cands, attempts, consulted, raised, exit_code, tensors >>

\* A direct caller of load_cpu_model gets the handle or the exception.
LibReturn ==
    /\ entry = "lib" /\ pc = "lcm_return"
    /\ model' = lcm_ret.model
    /\ raised' = (IF lcm_ret.kind = "raise" THEN lcm_ret.exc ELSE "none")
    /\ pc' = "done"
    /\ UNCHANGED << tools, direct, inputs, runs, env, has_akida, model_path, backend, mode, lcm,
                    cands, attempts, consulted, exit_code, tensors >>

(***************************************************************************)
(* experiments/vision_demo.py main (audio_demo.py main resolves alike)     *)
(***************************************************************************)
\* Lines 120-123: the input file must exist.
DemoValidate ==
    /\ entry = "demo" /\ pc = "validate"
    /\ \E m \in Outcomes(env, "media", {"yes", "no"}) :
        /\ env' = Learn(env, "media", m)
        /\ IF m = "yes" THEN pc' = "detect" /\ exit_code' = exit_code
           ELSE pc' = "done" /\ exit_code' = "1"
    /\ UNCHANGED << tools, direct, inputs, locals, runs, lcm, cands, attempts, consulted, raised, tensors >>

\* Lines 125-136: platform and SDK detection, then the locals of resolution.
DemoDetect ==
    /\ entry = "demo" /\ pc = "detect"
    /\ IF is_linux_arm(plat) THEN
           \E a \in attempt_import_akida(env) : has_akida' = a.ok /\ env' = a.env
       ELSE has_akida' = FALSE /\ env' = env
    /\ model_path' = args_model
    /\ backend' = "None"
    /\ model' = NoModel
    /\ pc' = "find_akida"
    /\ UNCHANGED << tools, direct, inputs, runs, mode, lcm, cands, attempts, consulted, raised,
                    exit_code, tensors >>

\* Lines 138-149: look for an accelerator model.
DemoFindAkida ==
    /\ entry = "demo" /\ pc = "find_akida"
    /\ LET path == first_akida_path(fs) IN
       IF has_akida /\ model_path = NoPath /\ path # NoPath THEN
           /\ model_path' = path
           /\ backend' = "akida"
           /\ cands' = Append(cands, <<"akida", path>>)
       ELSE UNCHANGED << model_path, backend, cands >>
    /\ pc' = "find_cpu"
    /\ UNCHANGED << tools, direct, inputs, runs, env, has_akida, model, mode, lcm, attempts, consulted,
                    raised, exit_code, tensors >>

\* DemoFindCpu that visits the search locations in no fixed order: any
\* directory that holds a model may supply it.
DemoFindCpu_Unordered ==
    /\ entry = "demo" /\ pc = "find_cpu"
    /\ IF model_path = NoPath THEN
           \E d \in Dirs :
               LET one == [x \in Dirs |-> IF x = d THEN fs[x] ELSE Absent]
                   r == find_cpu_model(one)
                   all == find_cpu_model(fs)
               IN  /\ all.status = "none" \/ r.status # "none"
                   /\ IF r.status = "raise" THEN
                          /\ raised' = "NotADirectoryError" /\ exit_code' = "1" /\ pc' = "done"
                          /\ UNCHANGED << model_path, backend, cands >>
                      ELSE
                          /\ model_path' = r.path
                          /\ backend' = (IF r.status = "none" THEN backend
                                         ELSE IF endswith(r.path, ".onnx") THEN "onnx"
                                         ELSE IF endswith(r.path, ".tflite") THEN "tflite"
                                         ELSE backend)
                          /\ cands' = (IF r.status = "none" THEN cands
                                       ELSE Append(cands, <<backend', r.path>>))
                          /\ pc' = "select"
                          /\ UNCHANGED << raised, exit_code >>
       ELSE pc' = "select" /\ UNCHANGED << model_path, backend, cands, raised, exit_code >>
    /\ UNCHANGED << tools, direct, inputs, runs, env, has_akida, model, mode, lcm, attempts, consulted,
                    tensors >>

\* Lines 151-158: look for a CPU model; the backend follows the file found.
DemoFindCpu ==
    /\ entry = "demo" /\ pc = "find_cpu"
    /\ IF model_path = NoPath THEN
           LET r == find_cpu_model(fs) IN
           IF r.status = "raise" THEN
               /\ raised' = "NotADirectoryError" /\ exit_code' = "1" /\ pc' = "done"
               /\ UNCHANGED << model_path, backend, cands >>
           ELSE
               /\ model_path' = r.path
               /\ backend' = (IF r.status = "none" THEN backend
                              ELSE IF endswith(r.path, ".onnx") THEN "onnx"
                              ELSE IF endswith(r.path, ".tflite") THEN "tflite"
                              ELSE backend)
               /\ cands' = (IF r.status = "none" THEN cands
                            ELSE Append(cands, <<backend', r.path>>))
               /\ pc' = "select"
               /\ UNCHANGED << raised, exit_code >>
       ELSE pc' = "select" /\ UNCHANGED << model_path, backend, cands, raised, exit_code >>
    /\ UNCHANGED << tools, direct, inputs, runs, env, has_akida, model, mode, lcm, attempts, consulted,
                    tensors >>

\* Lines 160-166: without a model path the backend is the dummy.
DemoSelect ==
    /\ entry = "demo" /\ pc = "select"
    /\ backend' = (IF model_path = NoPath THEN "dummy" ELSE backend)
    /\ pc' = "load_akida"
    /\ UNCHANGED << tools, direct, inputs, runs, env, has_akida, model_path, model, mode, lcm, cands,
                    attempts, consulted, raised, exit_code, tensors >>

\* DemoLoadAkida whose except clause keeps the backend "akida" after the load
\* failed.
DemoLoadAkida_KeepsBackend ==
    /\ entry = "demo" /\ pc = "load_akida"
    /\ IF backend = "akida" THEN
           \E r \in load_akida_model(env, fs, model_path) :
               /\ env' = r.env
               /\ attempts' = (IF r.called
                               THEN Append(attempts,
                                        [kind |-> "akida", path |-> model_path, ok |-> r.ok])
                               ELSE attempts)
               /\ IF r.ok THEN model' = AkidaModel /\ backend' = backend
                  ELSE model' = NoModel /\ backend' = backend
       ELSE UNCHANGED << env, attempts, model, backend >>
    /\ pc' = "load_cpu"
    /\ UNCHANGED << tools, direct, inputs, runs, has_akida, model_path, mode, lcm, cands, consulted,
                    raised, exit_code, tensors >>

\* Lines 169-176: load the accelerator model; on failure the backend is "cpu".
DemoLoadAkida ==
    /\ entry = "demo" /\ pc = "load_akida"
    /\ IF backend = "akida" THEN
           \E r \in load_akida_model(env, fs, model_path) :
               /\ env' = r.env
               /\ attempts' = (IF r.called
                               THEN Append(attempts,
                                        [kind |-> "akida", path |-> model_path, ok |-> r.ok])
                               ELSE attempts)
               /\ IF r.ok THEN model' = AkidaModel /\ backend' = backend
                  ELSE model' = NoModel /\ backend' = "cpu"
       ELSE UNCHANGED << env, attempts, model, backend >>
    /\ pc' = "load_cpu"
    /\ UNCHANGED << tools, direct, inputs, runs, has_akida, model_path, mode, lcm, cands, consulted,
                    raised, exit_code, tensors >>

\* DemoLoadCpu whose guard is "the backend is not the dummy" instead of
\* backend in ["onnx", "tflite"]: load_cpu_model is also called after the
\* accelerator model was loaded.
DemoLoadCpu_AnyBackend ==
    /\ entry = "demo" /\ pc = "load_cpu"
    /\ IF backend # "dummy" THEN
           /\ lcm_path' = model_path
           /\ lcm_preferred' = backend
           /\ lcm_backend' = "None"
           /\ lcm_ret' = NoRet
           /\ pc' = "lcm_determine"
       ELSE pc' = "preprocess" /\ UNCHANGED lcm
    /\ UNCHANGED << tools, direct, inputs, runs, env, locals, cands, attempts, consulted, raised,
                    exit_code, tensors >>

\* Lines 178-180: call load_cpu_model(model_path, preferred_backend=backend).
DemoLoadCpu ==
    /\ entry = "demo" /\ pc = "load_cpu"
    /\ IF backend \in {"onnx", "tflite"} THEN
           /\ lcm_path' = model_path
           /\ lcm_preferred' = backend
           /\ lcm_backend' = "None"
           /\ lcm_ret' = NoRet
           /\ pc' = "lcm_determine"
       ELSE pc' = "preprocess" /\ UNCHANGED lcm
    /\ UNCHANGED << tools, direct, inputs, runs, env, locals, cands, attempts, consulted, raised,
                    exit_code, tensors >>

\* DemoLoadCpuReturn without the except clause of lines 181-185: the exception
\* of load_cpu_model leaves main.
DemoLoadCpuReturn_Propagates ==
    /\ entry = "demo" /\ pc = "lcm_return"
    /\ IF lcm_ret.kind = "return" THEN
           /\ model' = lcm_ret.model /\ pc' = "preprocess"
           /\ UNCHANGED << raised, exit_code >>
       ELSE
           /\ model' = NoModel /\ pc' = "done"
           /\ raised' = lcm_ret.exc /\ exit_code' = "1"
    /\ UNCHANGED << tools, direct, inputs, runs, env, has_akida, model_path, backend, mode, lcm, cands,
                    attempts, consulted, input_shape, output_shape, inferred >>

\* Lines 180-185: keep the handle, or catch the exception and use the dummy.
DemoLoadCpuReturn ==
    /\ entry = "demo" /\ pc = "lcm_return"
    /\ IF lcm_ret.kind = "return" THEN model' = lcm_ret.model /\ backend' = backend
       ELSE model' = NoModel /\ backend' = "dummy"
    /\ pc' = "preprocess"
    /\ UNCHANGED << tools, direct, inputs, runs, env, has_akida, model_path, mode, lcm, cands, attempts,
                    consulted, raised, exit_code, tensors >>

\* Lines 187-198: preprocessing gives the input tensor or ends the run.
DemoPreprocess ==
    /\ entry = "demo" /\ pc = "preprocess"
    /\ \/ \E s \in InputShapes :
            input_shape' = s /\ pc' = "infer" /\ exit_code' = exit_code
       \/ input_shape' = input_shape /\ pc' = "done" /\ exit_code' = "1"
    /\ UNCHANGED << tools, direct, inputs, runs, env, locals, lcm, cands, attempts, consulted, raised,
                    output_shape, inferred >>

\* DemoInfer whose placeholder takes the shape of the input tensor.
DemoInfer_ShapeOfInput ==
    /\ entry = "demo" /\ pc = "infer"
    /\ IF backend = "akida" \/ backend \in {"onnx", "tflite"} THEN
           \E r \in predict(model) :
               /\ inferred' = (IF backend = "akida" THEN "akida" ELSE "cpu")
               /\ output_shape' = r.shape
               /\ exit_code' = (IF r.ok THEN "0" ELSE "1")
       ELSE
           /\ inferred' = "dummy"
           /\ output_shape' = input_shape
           /\ exit_code' = "0"
    /\ pc' = "done"
    /\ UNCHANGED << tools, direct, inputs, runs, env, locals, lcm, cands, attempts, consulted, raised,
                    input_shape >>

\* Lines 203-236: inference by the branch the backend string selects.
DemoInfer ==
    /\ entry = "demo" /\ pc = "infer"
    /\ IF backend = "akida" \/ backend \in {"onnx", "tflite"} THEN
           \E r \in predict(model) :
               /\ inferred' = (IF backend = "akida" THEN "akida" ELSE "cpu")
               /\ output_shape' = r.shape
               /\ exit_code' = (IF r.ok THEN "0" ELSE "1")
       ELSE
           /\ inferred' = "dummy"
           /\ output_shape' = DummyOutputShape
           /\ exit_code' = "0"
    /\ pc' = "done"
    /\ UNCHANGED << tools, direct, inputs, runs, env, locals, lcm, cands, attempts, consulted, raised,
                    input_shape >>

(***************************************************************************)
(* experiments/demo_inference.py main                                      *)
(***************************************************************************)
\* Lines 89-97.
StubDetect ==
    /\ entry = "stub" /\ pc = "stub_detect"
    /\ IF is_linux_arm(plat) THEN
           \E a \in attempt_import_akida(env) : has_akida' = a.ok /\ env' = a.env
       ELSE has_akida' = FALSE /\ env' = env
    /\ pc' = "stub_choose"
    /\ UNCHANGED << tools, direct, inputs, runs, model_path, backend, model, mode, lcm, cands, attempts,
                    consulted, raised, exit_code, tensors >>

\* Lines 102-129: the accelerator model, an exit, or the dummy CPU model.
StubChoose ==
    /\ entry = "stub" /\ pc = "stub_choose"
    /\ IF has_akida THEN
           /\ model_path' = stub_model_path
           /\ cands' = Append(cands, <<"akida", stub_model_path>>)
           /\ IF ~path_exists(fs, stub_model_path) THEN
                  /\ raised' = "SystemExit" /\ exit_code' = "1" /\ pc' = "done"
                  /\ UNCHANGED << env, attempts, model, mode >>
              ELSE
                  \E c \in Outcomes(env, "akida_ctor", CallOutcomes) :
                      /\ env' = Learn(env, "akida_ctor", c)
                      /\ attempts' = Append(attempts,
                             [kind |-> "akida", path |-> stub_model_path, ok |-> (c = "ok")])
                      /\ IF c = "ok" THEN
                             /\ model' = AkidaModel /\ mode' = "akida" /\ pc' = "stub_infer"
                             /\ UNCHANGED << raised, exit_code >>
                         ELSE
                             /\ raised' = "SystemExit" /\ exit_code' = "1" /\ pc' = "done"
                             /\ UNCHANGED << model, mode >>
       ELSE
           /\ model' = DummyCPUModel /\ mode' = "cpu" /\ pc' = "stub_infer"
           /\ UNCHANGED << env, model_path, cands, attempts, raised, exit_code >>
    /\ UNCHANGED << tools, direct, inputs, runs, has_akida, backend, lcm, consulted, tensors >>

\* Lines 138-161: predict on the sample input.
StubInfer ==
    /\ entry = "stub" /\ pc = "stub_infer"
    /\ input_shape' = StubInputShape
    /\ \E r \in predict(model) :
        /\ inferred' = (IF mode = "akida" THEN "akida" ELSE "dummy")
        /\ output_shape' = r.shape
        /\ exit_code' = (IF r.ok THEN "0" ELSE "1")
    /\ pc' = "done"
    /\ UNCHANGED << tools, direct, inputs, runs, env, locals, lcm, cands, attempts, consulted, raised >>

(***************************************************************************)
(* Running again on the same inputs                                        *)
(***************************************************************************)
\* What a run leaves behind for comparison.
Result ==
    [ cands |-> cands, attempts |-> attempts, backend |-> backend, mode |-> mode,
      model |-> model, ret |-> lcm_ret, raised |-> raised ]

\* The program is started again: inputs and environment are the same, every
\* local starts afresh.
Rerun ==
    /\ pc = "done" /\ run = "first"
    /\ run' = "again"
    /\ prev' = Append(prev, Result)
    /\ pc' = FirstPc(entry)
    /\ has_akida' = FALSE /\ model_path' = NoPath /\ backend' = "None"
    /\ model' = NoModel /\ mode' = "None"
    /\ lcm_path' = (IF entry = "lib" THEN args_model ELSE NoPath)
    /\ lcm_preferred' = (IF entry = "lib" THEN args_backend ELSE "None")
    /\ lcm_backend' = "None" /\ lcm_ret' = NoRet
    /\ cands' = <<>> /\ attempts' = <<>> /\ consulted' = {}
    /\ raised' = "none" /\ exit_code' = ""
    /\ input_shape' = <<>> /\ output_shape' = <<>> /\ inferred' = "none"
    /\ UNCHANGED << tools, direct, inputs, env >>

Next ==
    \/ LcmDetermine \/ LcmLoadOnnx \/ LcmLoadTflite \/ LcmUnsupported \/ LibReturn
    \/ DemoValidate \/ DemoDetect \/ DemoFindAkida \/ DemoFindCpu \/ DemoSelect
    \/ DemoLoadAkida \/ DemoLoadCpu \/ DemoLoadCpuReturn \/ DemoPreprocess \/ DemoInfer
    \/ StubDetect \/ StubChoose \/ StubInfer

Spec == Init /\ [][Next]_vars

\* The same program, started a second time once the first run has ended.
NextAgain == Next \/ Rerun

SpecAgain == Init /\ [][NextAgain]_vars

(***************************************************************************)
(* The probes called on their own, in any order                            *)
(***************************************************************************)
resolver ==
    << inputs, runs, pc, locals, lcm, cands, attempts, consulted, raised, exit_code,
       tensors >>

InitProbes ==
    /\ NoRun("probes")
    /\ plat \in AllPlatforms
    /\ env = EnvUnknown
    /\ NoProbing /\ NoPreprocessing
    /\ NoDeploy /\ NoDiag

\* A copy of is_linux_arm returns v.
ReturnsArm(c, v) ==
    /\ entry = "probes" /\ arm[c] = "unk"
    /\ arm' = [arm EXCEPT ![c] = Bool(v)]
    /\ UNCHANGED << tools, resolver, env, probed, preprocessing >>

IsLinuxArmCheckAkida == ReturnsArm("check_akida", is_linux_arm_check_akida(plat))
IsLinuxArmBuildModel == ReturnsArm("build_model", is_linux_arm_build_model(plat))
IsLinuxArmDemoInference == ReturnsArm("demo_inference", is_linux_arm_demo_inference(plat))
IsLinuxArmVisionDemo == ReturnsArm("vision_demo", is_linux_arm(plat))
IsLinuxArmAudioDemo == ReturnsArm("audio_demo", is_linux_arm_audio_demo(plat))

CallCheckOnnxAvailable ==
    /\ entry = "probes" /\ probed["check_onnx_available"] = "unk"
    /\ \E a \in check_onnx_available(env) :
        /\ env' = a.env
        /\ probed' = [probed EXCEPT !["check_onnx_available"] = a.res]
    /\ UNCHANGED << tools, resolver, arm, preprocessing >>

CallCheckTfliteAvailable ==
    /\ entry = "probes" /\ probed["check_tflite_available"] = "unk"
    /\ \E a \in check_tflite_available(env) :
        /\ env' = a.env
        /\ probed' = [probed EXCEPT !["check_tflite_available"] = a.res]
    /\ UNCHANGED << tools, resolver, arm, preprocessing >>

CallAttemptImportAkida ==
    /\ entry = "probes" /\ probed["attempt_import_akida"] = "unk"
    /\ \E a \in attempt_import_akida(env) :
        /\ env' = a.env
        /\ probed' = [probed EXCEPT !["attempt_import_akida"] = Bool(a.ok)]
    /\ UNCHANGED << tools, resolver, arm, preprocessing >>

NextProbes ==
    \/ IsLinuxArmCheckAkida \/ IsLinuxArmBuildModel \/ IsLinuxArmDemoInference
    \/ IsLinuxArmVisionDemo \/ IsLinuxArmAudioDemo
    \/ CallCheckOnnxAvailable \/ CallCheckTfliteAvailable \/ CallAttemptImportAkida

SpecProbes == InitProbes /\ [][NextProbes]_vars

(***************************************************************************)
(* core/cpu_fallback.py CpuModel: a handle from load_cpu_model, or one     *)
(* constructed by the caller, and predict called on it any number of times *)
(***************************************************************************)
\* backend strings and runtime objects a caller can pass to CpuModel().
BackendArgs == {"onnx", "tflite", "akida", "dummy", "cpu"}
ModelObjs == {"InferenceSession", "Interpreter", "akida.Model"}

InitHandle ==
    /\ \/ /\ entry = "lib"
          /\ args_model \in UserPaths /\ args_backend \in Preferreds
          /\ plat \in Platforms /\ fs = [d \in Dirs |-> Absent]
          /\ run = "first" /\ prev = <<>>
          /\ StartOfRun
       \/ /\ NoRun("handle")
          /\ plat \in Platforms
    /\ env = EnvUnknown
    /\ NoProbing /\ NoPreprocessing
    /\ NoDeploy /\ NoDiag

\* Lines 18-20: __init__ stores both arguments as given.
CpuModelInit ==
    /\ entry = "handle" /\ model = NoModel
    /\ \E b \in BackendArgs, o \in ModelObjs : model' = CpuModel(b, o)
    /\ UNCHANGED << tools, direct, inputs, runs, env, pc, has_akida, model_path, backend, mode,
                    lcm, cands, attempts, consulted, raised, exit_code, tensors >>

\* CpuModel.predict that treats every backend other than onnx as tflite.
CpuModel_predict_NoDefault(m) ==
    IF m.backend = "onnx" THEN
        IF m.obj = "InferenceSession" THEN
            { [ok |-> TRUE, via |-> "_predict_onnx", shape |-> s, exc |-> ""] :
                s \in ModelOutputShapes }
            \cup { [ok |-> FALSE, via |-> "_predict_onnx", shape |-> <<>>, exc |-> "Exception"] }
        ELSE { [ok |-> FALSE, via |-> "_predict_onnx", shape |-> <<>>, exc |-> "AttributeError"] }
    ELSE
        IF m.obj = "Interpreter" THEN
            { [ok |-> TRUE, via |-> "_predict_tflite", shape |-> s, exc |-> ""] :
                s \in ModelOutputShapes }
            \cup { [ok |-> FALSE, via |-> "_predict_tflite", shape |-> <<>>, exc |-> "Exception"] }
        ELSE { [ok |-> FALSE, via |-> "_predict_tflite", shape |-> <<>>, exc |-> "AttributeError"] }

\* Lines 22-66: predict dispatches on self.backend; the strategy then calls
\* the methods of the runtime object, which an object of another runtime
\* does not have.
CpuModel_predict(m) ==
    IF m.backend = "onnx" THEN
        IF m.obj = "InferenceSession" THEN
            { [ok |-> TRUE, via |-> "_predict_onnx", shape |-> s, exc |-> ""] :
                s \in ModelOutputShapes }
            \cup { [ok |-> FALSE, via |-> "_predict_onnx", shape |-> <<>>, exc |-> "Exception"] }
        ELSE { [ok |-> FALSE, via |-> "_predict_onnx", shape |-> <<>>, exc |-> "AttributeError"] }
    ELSE IF m.backend = "tflite" THEN
        IF m.obj = "Interpreter" THEN
            { [ok |-> TRUE, via |-> "_predict_tflite", shape |-> s, exc |-> ""] :
                s \in ModelOutputShapes }
            \cup { [ok |-> FALSE, via |-> "_predict_tflite", shape |-> <<>>, exc |-> "Exception"] }
        ELSE { [ok |-> FALSE, via |-> "_predict_tflite", shape |-> <<>>, exc |-> "AttributeError"] }
    ELSE { [ok |-> FALSE, via |-> "raise", shape |-> <<>>, exc |-> "ValueError"] }

\* A caller holding a CpuModel calls predict.  Neither predict nor a strategy
\* assigns self.backend or self._model.
CpuModelPredict ==
    /\ model.cls = "CpuModel"
    /\ entry = "handle" \/ (entry = "lib" /\ pc = "done")
    /\ \E s \in InputShapes, r \in CpuModel_predict(model) :
        /\ input_shape' = s
        /\ output_shape' = r.shape
        /\ inferred' = r.via
        /\ raised' = (IF r.ok THEN "none" ELSE r.exc)
    /\ model' = model
    /\ UNCHANGED << tools, direct, inputs, runs, env, pc, has_akida, model_path, backend, mode,
                    lcm, cands, attempts, consulted, exit_code >>

NextHandle ==
    \/ LcmDetermine \/ LcmLoadOnnx \/ LcmLoadTflite \/ LcmUnsupported \/ LibReturn
    \/ CpuModelInit \/ CpuModelPredict

SpecHandle == InitHandle /\ [][NextHandle]_vars

(***************************************************************************)
(* core/preprocessing.py preprocess_image                                  *)
(***************************************************************************)
\* PIL: Image.open(path) has a size (width, height) and a mode.
Image_open(f) == [size |-> f.size, mode |-> f.mode]
convert(img, to) == [img EXCEPT !.mode = to]
\* PIL: Image.resize(size) takes size as (width, height).
resize(img, size) == [img EXCEPT !.size = size]
\* np.array(img): (height, width) for mode L, else (height, width, channels).
np_array(img) ==
    CASE img.mode = "L" -> << img.size[2], img.size[1] >>
      [] img.mode = "RGB" -> << img.size[2], img.size[1], 3 >>
      [] OTHER -> << img.size[2], img.size[1], 4 >>

\* OpenCV: imread gives an array of shape (height, width, 3).
cv2_imread(f) == << f.size[2], f.size[1], 3 >>
cv2_cvtColor(shape, code) ==
    IF code = "COLOR_BGR2GRAY" THEN << shape[1], shape[2] >> ELSE shape
\* OpenCV: resize(img, dsize) takes dsize as (width, height).
cv2_resize(shape, dsize) == << dsize[2], dsize[1] >> \o SubSeq(shape, 3, Len(shape))

\* np.expand_dims(a, axis=0)
expand_dims(shape) == <<1>> \o shape

PpReturn(shape) == [kind |-> "return", exc |-> "", shape |-> shape]
PpRaise(e) == [kind |-> "raise", exc |-> e, shape |-> <<>>]

\* Lines 33-47: the PIL path.  Resampling keeps 8-bit pixels 8-bit.
ImageDecodePIL ==
    /\ pp_args.fn = "preprocess_image" /\ pp_pc = "start"
    /\ pp_lib["PIL"] = "ok"
    /\ IF pp_file.kind # "image" THEN
           /\ pp_ret' = PpRaise("UnidentifiedImageError")
           /\ pp_pc' = "done"
           /\ img_array' = img_array
       ELSE
           LET img0 == Image_open(pp_file)
               img1 == IF img0.mode # "RGB" /\ ~pp_args.grayscale THEN convert(img0, "RGB")
                       ELSE IF pp_args.grayscale /\ img0.mode # "L" THEN convert(img0, "L")
                       ELSE img0
               img2 == resize(img1, pp_args.target_shape)
           IN  /\ \E v \in PixelLevels :
                     img_array' = [shape |-> np_array(img2), hi |-> v, den |-> 1]
               /\ pp_pc' = "normalize"
               /\ pp_ret' = pp_ret
    /\ UNCHANGED << tools, resolver, env, probing, pp_args, pp_file, pp_lib, audio, decoded, forced >>

\* Lines 49-72: the OpenCV path, taken when PIL does not import.
ImageDecodeCv2 ==
    /\ pp_args.fn = "preprocess_image" /\ pp_pc = "start"
    /\ pp_lib["PIL"] = "ImportError"
    /\ IF pp_lib["cv2"] = "ImportError" THEN
           /\ pp_ret' = PpRaise("RuntimeError")
           /\ pp_pc' = "done"
           /\ img_array' = img_array
       ELSE IF pp_file.kind # "image" THEN
           /\ pp_ret' = PpRaise("ValueError")
           /\ pp_pc' = "done"
           /\ img_array' = img_array
       ELSE
           LET img0 == cv2_imread(pp_file)
               img1 == IF ~pp_args.grayscale THEN cv2_cvtColor(img0, "COLOR_BGR2RGB")
                       ELSE cv2_cvtColor(img0, "COLOR_BGR2GRAY")
               img2 == cv2_resize(img1, pp_args.target_shape)
           IN  /\ \E v \in PixelLevels :
                     img_array' = [shape |-> img2, hi |-> v, den |-> 1]
               /\ pp_pc' = "normalize"
               /\ pp_ret' = pp_ret
    /\ UNCHANGED << tools, resolver, env, probing, pp_args, pp_file, pp_lib, audio, decoded, forced >>

\* Lines 74-76.
ImageNormalize ==
    /\ pp_args.fn = "preprocess_image" /\ pp_pc = "normalize"
    /\ img_array' = (IF pp_args.normalize THEN [img_array EXCEPT !.den = 255] ELSE img_array)
    /\ pp_pc' = "batch"
    /\ UNCHANGED << tools, resolver, env, probing, pp_args, pp_file, pp_lib, audio, decoded, forced,
                    pp_ret >>

\* Lines 78-85.
ImageBatch ==
    /\ pp_args.fn = "preprocess_image" /\ pp_pc = "batch"
    /\ img_array' = [img_array EXCEPT !.shape =
                        IF Len(img_array.shape) = 2
                        THEN expand_dims(expand_dims(img_array.shape))
                        ELSE expand_dims(img_array.shape)]
    /\ pp_ret' = PpReturn(img_array'.shape)
    /\ pp_pc' = "done"
    /\ UNCHANGED << tools, resolver, env, probing, pp_args, pp_file, pp_lib, audio, decoded, forced >>

(***************************************************************************)
(* core/preprocessing.py preprocess_audio                                  *)
(***************************************************************************)
Abs(x) == IF x < 0 THEN -x ELSE x
Min(a, b) == IF a <= b THEN a ELSE b
Max(a, b) == IF a >= b THEN a ELSE b

\* int(n / d): the fraction is cut off, towards zero.
Trunc(n, d) == IF n >= 0 THEN n \div d ELSE -((-n) \div d)

\* int(duration * sample_rate)
target_samples(args) == Trunc(args.duration.q * args.sample_rate, DurUnit)

\* audio[:t]: the first t samples, or all but the last -t when t is negative.
SliceTo(a, t) ==
    IF t >= 0 THEN SubSeq(a, 1, Min(t, Len(a)))
    ELSE SubSeq(a, 1, Max(Len(a) + t, 0))

\* np.pad(audio, (0, n), mode="constant")
PadEnd(a, n) == a \o [i \in 1..n |-> 0]

\* np.max(np.abs(audio)) of a waveform that is not empty, in its unit.
MaxAbs(a) == CHOOSE m \in { Abs(a[i]) : i \in DOMAIN a } : \A i \in DOMAIN a : Abs(a[i]) <= m

\* Lines 107-111: the librosa path.  load delivers floats at sample_rate.
AudioDecodeLibrosa ==
    /\ pp_args.fn = "preprocess_audio" /\ pp_pc = "start"
    /\ pp_lib["librosa"] = "ok"
    /\ IF pp_file.kind # "audio" THEN
           /\ pp_ret' = PpRaise("Exception")
           /\ pp_pc' = "done"
           /\ UNCHANGED << audio, decoded >>
       ELSE
           /\ audio' = [samples |-> pp_file.samples, unit |-> "1", m |-> 0]
           /\ decoded' = pp_file.samples
           /\ pp_pc' = "force"
           /\ pp_ret' = pp_ret
    /\ UNCHANGED << tools, resolver, env, probing, pp_args, pp_file, pp_lib, img_array, forced >>

\* Lines 132-153 and 174-178: the scipy path, taken when librosa does not
\* import.  int16 and int32 samples of a mono file are scaled to floats; the
\* mean over the channels of a stereo file is float64 and is left as it is.
AudioDecodeScipy ==
    /\ pp_args.fn = "preprocess_audio" /\ pp_pc = "start"
    /\ pp_lib["librosa"] = "ImportError"
    /\ IF pp_lib["scipy"] = "ImportError" THEN
           /\ pp_ret' = PpRaise("RuntimeError")
           /\ pp_pc' = "done"
           /\ UNCHANGED << audio, decoded >>
       ELSE IF pp_file.kind # "audio" THEN
           /\ pp_ret' = PpRaise("ValueError")
           /\ pp_pc' = "done"
           /\ UNCHANGED << audio, decoded >>
       ELSE
           /\ \E dtype \in {"int16", "int32", "float32"}, channels \in {1, 2} :
                 audio' = [samples |-> pp_file.samples,
                           unit |-> (CASE channels = 1 /\ dtype = "int16" -> "1/32768"
                                       [] channels = 1 /\ dtype = "int32" -> "1/2147483648"
                                       [] OTHER -> "1"),
                           m |-> 0]
           /\ decoded' = pp_file.samples
           /\ pp_pc' = "force"
           /\ pp_ret' = pp_ret
    /\ UNCHANGED << tools, resolver, env, probing, pp_args, pp_file, pp_lib, img_array, forced >>

\* AudioForceLength that pads a short waveform at the front.
AudioForceLength_PadFront ==
    /\ pp_args.fn = "preprocess_audio" /\ pp_pc = "force"
    /\ LET t == target_samples(pp_args)
           a == audio.samples
           b == IF ~pp_args.duration.given THEN a
                ELSE IF Len(a) > t THEN SliceTo(a, t)
                ELSE IF Len(a) < t THEN [i \in 1..(t - Len(a)) |-> 0] \o a
                ELSE a
       IN  /\ audio' = [audio EXCEPT !.samples = b]
           /\ forced' = b
    /\ pp_pc' = "normalize"
    /\ UNCHANGED << tools, resolver, env, probing, pp_args, pp_file, pp_lib, img_array, decoded,
                    pp_ret >>

\* Lines 113-119 (155-161 in the scipy path): trim or pad to the duration.
AudioForceLength ==
    /\ pp_args.fn = "preprocess_audio" /\ pp_pc = "force"
    /\ LET t == target_samples(pp_args)
           a == audio.samples
           b == IF ~pp_args.duration.given THEN a
                ELSE IF Len(a) > t THEN SliceTo(a, t)
                ELSE IF Len(a) < t THEN PadEnd(a, t - Len(a))
                ELSE a
       IN  /\ audio' = [audio EXCEPT !.samples = b]
           /\ forced' = b
    /\ pp_pc' = "normalize"
    /\ UNCHANGED << tools, resolver, env, probing, pp_args, pp_file, pp_lib, img_array, decoded,
                    pp_ret >>

\* AudioNormalize that divides by max_val without testing it against zero.
AudioNormalize_NoGuard ==
    /\ pp_args.fn = "preprocess_audio" /\ pp_pc = "normalize"
    /\ IF ~pp_args.normalize THEN
           /\ pp_pc' = "batch" /\ UNCHANGED << audio, pp_ret >>
       ELSE IF audio.samples = <<>> THEN
           /\ pp_ret' = PpRaise("ValueError")
           /\ pp_pc' = "done" /\ audio' = audio
       ELSE
           LET max_val == MaxAbs(audio.samples)
           IN  /\ audio' = (IF max_val > 0
                            THEN [audio EXCEPT !.unit = "1/max_val", !.m = max_val]
                            ELSE [audio EXCEPT !.unit = "nan"])
               /\ pp_pc' = "batch" /\ pp_ret' = pp_ret
    /\ UNCHANGED << tools, resolver, env, probing, pp_args, pp_file, pp_lib, img_array, decoded,
                    forced >>

\* Lines 121-125 (163-167): np.max raises ValueError on an empty array.
AudioNormalize ==
    /\ pp_args.fn = "preprocess_audio" /\ pp_pc = "normalize"
    /\ IF ~pp_args.normalize THEN
           /\ pp_pc' = "batch" /\ UNCHANGED << audio, pp_ret >>
       ELSE IF audio.samples = <<>> THEN
           /\ pp_ret' = PpRaise("ValueError")
           /\ pp_pc' = "done" /\ audio' = audio
       ELSE
           LET max_val == MaxAbs(audio.samples)
           IN  /\ audio' = (IF max_val > 0
                            THEN [audio EXCEPT !.unit = "1/max_val", !.m = max_val]
                            ELSE audio)
               /\ pp_pc' = "batch" /\ pp_ret' = pp_ret
    /\ UNCHANGED << tools, resolver, env, probing, pp_args, pp_file, pp_lib, img_array, decoded,
                    forced >>

\* Lines 127-130 (169-172).
AudioBatch ==
    /\ pp_args.fn = "preprocess_audio" /\ pp_pc = "batch"
    /\ pp_ret' = PpReturn(expand_dims(<< Len(audio.samples) >>))
    /\ pp_pc' = "done"
    /\ UNCHANGED << tools, resolver, env, probing, pp_args, pp_file, pp_lib, img_array, audio,
                    decoded, forced >>

\* Which of the two decoding libraries of a track import.
LibStates(first, second) ==
    { [AllInstalled EXCEPT ![first] = a, ![second] = b] :
        a \in {"ok", "ImportError"}, b \in {"ok", "ImportError"} }

InitPreprocess ==
    /\ NoRun("preprocess")
    /\ plat = [system |-> "Linux", machine |-> <<"x", "8", "6", "_", "6", "4">>]
    /\ env = EnvUnknown
    /\ NoProbing
    /\ NoDeploy /\ NoDiag
    /\ pp_pc = "start"
    /\ \/ /\ pp_args \in ImageArgs
          /\ pp_file \in ImageFiles \cup {Undecodable}
          /\ pp_lib \in LibStates("PIL", "cv2")
       \/ /\ pp_args \in AudioArgs
          /\ pp_file \in AudioFiles \cup {Undecodable}
          /\ pp_lib \in LibStates("librosa", "scipy")
    /\ img_array = NoArray /\ audio = NoAudio /\ decoded = <<>> /\ forced = <<>>
    /\ pp_ret = [kind |-> "none", exc |-> "", shape |-> <<>>]

NextPreprocess ==
    \/ ImageDecodePIL \/ ImageDecodeCv2 \/ ImageNormalize \/ ImageBatch
    \/ AudioDecodeLibrosa \/ AudioDecodeScipy \/ AudioForceLength \/ AudioNormalize
    \/ AudioBatch

SpecPreprocess == InitPreprocess /\ [][NextPreprocess]_vars

(***************************************************************************)
(* tools/deploy.py deploy_model, called any number of times in a row       *)
(***************************************************************************)
\* os.path.join(models_dir, model_name)
DestPath(name) == [dir |-> "runtime/models", name |-> name]

InitDeploy ==
    /\ NoRun("deploy")
    /\ plat = [system |-> "Linux", machine |-> <<"x", "8", "6", "_", "6", "4">>]
    /\ env = EnvUnknown
    /\ NoProbing /\ NoPreprocessing /\ NoDiag
    /\ dep_pc = "idle" /\ dep_args = NoDeployArgs
    /\ dep_ret = "none" /\ dep_fail = "none"
    /\ manifest \in {ManifestAbsent, ManifestEmpty, ManifestCorrupt}
    /\ rt_models = NoFiles /\ models_dir = FALSE
    /\ calls = 0
    /\ before = [manifest |-> manifest, rt_models |-> NoFiles, models_dir |-> FALSE]
    /\ deployed = [m \in ModelIds |-> "none"]

\* Lines 36-41: deploy_model is entered with its arguments; main (138-145)
\* is one caller.
DeployCall ==
    /\ entry = "deploy" /\ dep_pc \in {"idle", "done"}
    /\ calls < MaxDeploys
    /\ \E a \in DeployArgs : dep_args' = a
    /\ dep_pc' = "validate"
    /\ dep_ret' = "none" /\ dep_fail' = "none"
    /\ calls' = calls + 1
    /\ before' = [manifest |-> manifest, rt_models |-> rt_models, models_dir |-> models_dir]
    /\ UNCHANGED << resolver, env, direct, diagnosing, manifest, rt_models, models_dir,
                    deployed >>

\* Lines 52-62: the two validations.
DeployValidate ==
    /\ entry = "deploy" /\ dep_pc = "validate"
    /\ IF SrcContent(dep_args.model_path) = "none" THEN
           dep_ret' = "False" /\ dep_fail' = "missing" /\ dep_pc' = "done"
       ELSE IF dep_args.backend \notin valid_backends THEN
           dep_ret' = "False" /\ dep_fail' = "backend" /\ dep_pc' = "done"
       ELSE
           dep_ret' = dep_ret /\ dep_fail' = dep_fail /\ dep_pc' = "copy"
    /\ UNCHANGED << resolver, env, direct, diagnosing, dep_args, manifest, rt_models,
                    models_dir, calls, before, deployed >>

\* DeployCopy that writes the entry of model_id into the manifest before the
\* file is copied.
DeployCopy_ManifestFirst ==
    /\ entry = "deploy" /\ dep_pc = "copy"
    /\ LET model_name == dep_args.model_path.name
           record == [id |-> dep_args.model_id, name |-> model_name,
                      backend |-> dep_args.backend, path |-> DestPath(model_name),
                      deployedAt |-> calls]
           written == IF manifest.kind = "corrupt" THEN manifest
                      ELSE [kind |-> "json", has_models |-> TRUE,
                            models |-> [manifest.models EXCEPT ![dep_args.model_id] = record]]
       IN  \/ /\ models_dir' = TRUE
              /\ rt_models' = [rt_models EXCEPT ![model_name] = SrcContent(dep_args.model_path)]
              /\ manifest' = manifest
              /\ dep_ret' = dep_ret /\ dep_fail' = dep_fail /\ dep_pc' = "manifest"
           \/ /\ models_dir' = TRUE
              /\ \/ rt_models' = rt_models
                 \/ rt_models' = [rt_models EXCEPT ![model_name] = "partial"]
              /\ manifest' = written
              /\ dep_ret' = "False" /\ dep_fail' = "copy" /\ dep_pc' = "done"
    /\ UNCHANGED << resolver, env, direct, diagnosing, dep_args, calls, before,
                    deployed >>

\* Lines 64-86: the models directory is made, then the file is copied under
\* its own name.  A copy that fails leaves the destination as it was or
\* partly written.
DeployCopy ==
    /\ entry = "deploy" /\ dep_pc = "copy"
    /\ LET model_name == dep_args.model_path.name
       IN  \/ /\ models_dir' = TRUE
              /\ rt_models' = [rt_models EXCEPT ![model_name] = SrcContent(dep_args.model_path)]
              /\ dep_ret' = dep_ret /\ dep_fail' = dep_fail /\ dep_pc' = "manifest"
           \/ /\ models_dir' = TRUE
              /\ \/ rt_models' = rt_models
                 \/ rt_models' = [rt_models EXCEPT ![model_name] = "partial"]
              /\ dep_ret' = "False" /\ dep_fail' = "copy" /\ dep_pc' = "done"
    /\ UNCHANGED << resolver, env, direct, diagnosing, dep_args, manifest, calls, before,
                    deployed >>

\* DeployManifest that starts from an empty manifest instead of the one on
\* disk.
DeployManifest_StartsAfresh ==
    /\ entry = "deploy" /\ dep_pc = "manifest"
    /\ IF manifest.kind = "corrupt" THEN
           /\ dep_ret' = "raise" /\ dep_fail' = "manifest"
           /\ UNCHANGED << manifest, deployed >>
       ELSE
           LET model_name == dep_args.model_path.name
               record == [id |-> dep_args.model_id, name |-> model_name,
                          backend |-> dep_args.backend, path |-> DestPath(model_name),
                          deployedAt |-> calls]
           IN  /\ manifest' = [kind |-> "json", has_models |-> TRUE,
                               models |-> [NoModels EXCEPT ![dep_args.model_id] = record]]
               /\ deployed' = [deployed EXCEPT ![dep_args.model_id] =
                                   SrcContent(dep_args.model_path)]
               /\ dep_ret' = "True" /\ dep_fail' = dep_fail
    /\ dep_pc' = "done"
    /\ UNCHANGED << resolver, env, direct, diagnosing, dep_args, rt_models, models_dir,
                    calls, before >>

\* Lines 88-109 with load_manifest and save_manifest (21-33): the manifest
\* is read, the entry of model_id is set and the whole is written back.
\* json.load raises on a file that is no JSON.
DeployManifest ==
    /\ entry = "deploy" /\ dep_pc = "manifest"
    /\ IF manifest.kind = "corrupt" THEN
           /\ dep_ret' = "raise" /\ dep_fail' = "manifest"
           /\ UNCHANGED << manifest, deployed >>
       ELSE
           LET loaded == IF manifest.kind = "absent" THEN NoModels
                         ELSE IF ~manifest.has_models THEN NoModels
                         ELSE manifest.models
               model_name == dep_args.model_path.name
               record == [id |-> dep_args.model_id, name |-> model_name,
                          backend |-> dep_args.backend, path |-> DestPath(model_name),
                          deployedAt |-> calls]
           IN  /\ manifest' = [kind |-> "json", has_models |-> TRUE,
                               models |-> [loaded EXCEPT ![dep_args.model_id] = record]]
               /\ deployed' = [deployed EXCEPT ![dep_args.model_id] =
                                   SrcContent(dep_args.model_path)]
               /\ dep_ret' = "True" /\ dep_fail' = dep_fail
    /\ dep_pc' = "done"
    /\ UNCHANGED << resolver, env, direct, diagnosing, dep_args, rt_models, models_dir,
                    calls, before >>

NextDeploy == DeployCall \/ DeployValidate \/ DeployCopy \/ DeployManifest

SpecDeploy == InitDeploy /\ [][NextDeploy]_vars

(***************************************************************************)
(* scripts/check_akida.py main                                             *)
(***************************************************************************)
\* Lines 34-60: True when "from akida import devices" succeeds; ImportError
\* and every other exception give False.
check_akida_import(s) == s.import = "ok"

\* Lines 63-106: True when devices() delivers at least one device and each
\* can be described; an empty list and every exception give False.
list_akida_devices(s) == s.import = "ok" /\ s.devices = "found"

InitDiag ==
    /\ NoRun("check_akida")
    /\ plat \in AllPlatforms
    /\ env = EnvUnknown
    /\ NoProbing /\ NoPreprocessing /\ NoDeploy
    /\ diag_pc = "platform"
    /\ sdk \in SdkStates
    /\ diag_called = <<>>
    /\ diag_exit = ""

\* Lines 119-133: off Linux ARM the script ends with 0.
DiagPlatform ==
    /\ entry = "check_akida" /\ diag_pc = "platform"
    /\ diag_called' = Append(diag_called, "is_linux_arm")
    /\ IF ~is_linux_arm_check_akida(plat)
       THEN diag_exit' = "0" /\ diag_pc' = "done"
       ELSE diag_exit' = diag_exit /\ diag_pc' = "import"
    /\ UNCHANGED << resolver, env, direct, deploying, sdk >>

\* Lines 136-138: without the SDK the script ends with 1.
DiagImport ==
    /\ entry = "check_akida" /\ diag_pc = "import"
    /\ diag_called' = Append(diag_called, "check_akida_import")
    /\ IF ~check_akida_import(sdk)
       THEN diag_exit' = "1" /\ diag_pc' = "done"
       ELSE diag_exit' = diag_exit /\ diag_pc' = "devices"
    /\ UNCHANGED << resolver, env, direct, deploying, sdk >>

\* DiagDevices that reports a missing device like a missing SDK.
DiagDevices_ExitOne ==
    /\ entry = "check_akida" /\ diag_pc = "devices"
    /\ diag_called' = Append(diag_called, "list_akida_devices")
    /\ LET ok == list_akida_devices(sdk)
       IN  diag_exit' = IF ok THEN "0" ELSE "1"
    /\ diag_pc' = "done"
    /\ UNCHANGED << resolver, env, direct, deploying, sdk >>

\* Lines 141-142: return 0 if ok else 2.
DiagDevices ==
    /\ entry = "check_akida" /\ diag_pc = "devices"
    /\ diag_called' = Append(diag_called, "list_akida_devices")
    /\ LET ok == list_akida_devices(sdk)
       IN  diag_exit' = IF ok THEN "0" ELSE "2"
    /\ diag_pc' = "done"
    /\ UNCHANGED << resolver, env, direct, deploying, sdk >>

NextDiag == DiagPlatform \/ DiagImport \/ DiagDevices

SpecDiag == InitDiag /\ [][NextDiag]_vars

(***************************************************************************)
(* Vocabulary of the properties                                            *)
(***************************************************************************)
\* The resolution of the current run is over: main has reached preprocessing,
\* load_cpu_model has come back to its caller, or the run ended while resolving.
ResolutionEnded ==
    CASE entry = "demo" ->
            \/ pc \in {"preprocess", "infer"}
            \/ pc = "done" /\ env["media"] = "yes"
      [] entry = "lib" -> pc = "done"
      [] entry = "stub" -> pc \in {"stub_infer", "done"}

\* main has passed lines 160-166: the backend string is determined.
DemoDetermined ==
    /\ entry = "demo"
    /\ \/ pc \in {"load_akida", "load_cpu", "lcm_determine", "lcm_load", "lcm_return",
                  "preprocess", "infer"}
       \/ pc = "done" /\ env["media"] = "yes" /\ raised = "none"

\* The state of the resolver, in the words of the design.
ResolverState ==
    IF ~ResolutionEnded THEN "Resolving"
    ELSE IF raised = "SystemExit" THEN "Exited"
    ELSE IF raised # "none" THEN "Raised"
    ELSE IF model.cls \in {"AkidaModel", "CpuModel"} THEN "Loaded"
    ELSE "Exhausted"

\* The kind of runtime a handle wraps.
HandleKind(m) ==
    CASE m.cls = "AkidaModel" -> "akida"
      [] m.cls = "CpuModel" -> m.backend
      [] OTHER -> "none"

Attempted(kind) == \E i \in DOMAIN attempts : attempts[i].kind = kind
FailedAttempt(kind) == \E i \in DOMAIN attempts : attempts[i].kind = kind /\ ~attempts[i].ok

\* The kind the extension hint stands for.
ExtKind(ext) ==
    CASE ext = ".ez" -> "akida"
      [] ext = ".onnx" -> "onnx"
      [] ext \in {".tflite", ".lite"} -> "tflite"
      [] OTHER -> "other"

OnnxDiscoverable ==
    \E d \in Dirs : fs[d].kind = "dir" /\ FirstWith(fs[d].files, ".onnx") > 0

(***************************************************************************)
(* C1                                                                      *)
(***************************************************************************)
\* C1 as stated: every resolution run goes on until it ends, and it ends in
\* Loaded or in Exhausted, never by an exception raised to the caller or by
\* an exit of the process.
C1_NeverRaises ==
    /\ pc = "done" \/ ENABLED Next
    /\ ResolutionEnded => ResolverState \in {"Loaded", "Exhausted"}

\* C1 amended: every resolution run goes on until it ends.  The vision and
\* audio demo end in Loaded or in the dummy branch, or with the listing error
\* of a well-known location that is no directory.  load_cpu_model ends with a
\* handle, or raises RuntimeError, ValueError (a preferred backend that is
\* neither onnx nor tflite) or the error of an import that failed with something
\* else than ImportError.  demo_inference ends in Loaded or with the dummy
\* model, or exits when the SDK imports and the accelerator model is missing
\* or fails to load.
C1_EndsLoadedDummyOrError ==
    /\ pc = "done" \/ ENABLED Next
    /\ ResolutionEnded =>
         CASE entry = "demo" ->
                \/ ResolverState \in {"Loaded", "Exhausted"}
                \/ /\ raised = "NotADirectoryError"
                   /\ args_model = NoPath
                   /\ \E d \in Dirs : fs[d] = NotDir
           [] entry = "lib" ->
                \/ ResolverState = "Loaded" /\ lcm_ret.kind = "return"
                \/ /\ raised = "RuntimeError" /\ lcm_ret = Raise("RuntimeError")
                \/ /\ raised = "ValueError"
                   /\ Truthy(args_backend) /\ args_backend \notin {"onnx", "tflite"}
                \/ /\ raised = "OtherError"
                   /\ \E f \in {"onnx_import", "tflite_runtime_import", "tensorflow_import"} :
                         env[f] = "OtherError"
           [] entry = "stub" ->
                \/ ResolverState \in {"Loaded", "Exhausted"}
                \/ /\ raised = "SystemExit" /\ exit_code = "1" /\ has_akida
                   /\ ~path_exists(fs, stub_model_path) \/ FailedAttempt("akida")

\* load_cpu_model, called directly, has raised RuntimeError after its load
\* attempt failed.
C1_Witness ==
    /\ entry = "lib" /\ pc = "done"
    /\ raised = "RuntimeError"
    /\ attempts # <<>>

(***************************************************************************)
(* C2                                                                      *)
(***************************************************************************)
\* load_cpu_model was called with preferred_backend "onnx" and its attempt to
\* construct the session failed.
OnnxOverrideFailed ==
    /\ lcm_preferred = "onnx"
    /\ lcm_ret.kind # "none"
    /\ FailedAttempt("onnx")

\* C2 as stated: with the override onnx and a path whose load attempt fails,
\* no tflite load is attempted, no dummy inference is run, and the caller
\* receives the load failure.
C2_NoFallThrough ==
    OnnxOverrideFailed =>
        /\ ~Attempted("tflite")
        /\ inferred # "dummy"
        /\ lcm_ret = Raise("RuntimeError")

\* C2 amended: with preferred_backend onnx and a path whose load attempt fails,
\* load_cpu_model attempts no tflite load and raises RuntimeError to its caller.
\* A direct caller is left with that error and no handle; the vision and audio
\* demo, which pass the kind of the file they found as preferred_backend, catch
\* the error, set the backend to dummy and run the dummy inference.
C2_OverrideRaisesToCaller ==
    OnnxOverrideFailed =>
        /\ ~Attempted("tflite")
        /\ lcm_ret = Raise("RuntimeError")
        /\ (entry = "lib" /\ pc = "done") =>
               raised = "RuntimeError" /\ model = NoModel /\ inferred = "none"
        /\ (entry = "demo" /\ ResolutionEnded) =>
               raised = "none" /\ backend = "dummy" /\ model = NoModel
        /\ (entry = "demo" /\ pc = "done" /\ input_shape # <<>>) => inferred = "dummy"

\* A direct caller asked for onnx, the session could not be constructed, and
\* the caller has the RuntimeError.
C2_Witness ==
    /\ entry = "lib" /\ pc = "done"
    /\ args_backend = "onnx"
    /\ FailedAttempt("onnx")
    /\ raised = "RuntimeError"

(***************************************************************************)
(* C3                                                                      *)
(***************************************************************************)
\* C3: a preferred_backend that is supplied is the sole candidate.  Whatever the
\* extension of the path and whatever the libraries answer, only the loader of
\* that kind is attempted, neither the extension nor the availability
\* auto-detection is consulted, the library of the other runtime is not even
\* probed, and a handle that comes back is of that kind.
C3_OverrideIsSoleCandidate ==
    (Truthy(lcm_preferred) /\ pc # "lcm_determine") =>
        /\ lcm_backend = lcm_preferred
        /\ consulted = {"preferred"}
        /\ \A i \in DOMAIN attempts : attempts[i].kind = lcm_preferred
        /\ lcm_preferred = "onnx" =>
               /\ env["tflite_runtime_import"] = "unk"
               /\ env["tensorflow_import"] = "unk"
        /\ lcm_preferred = "tflite" => env["onnx_import"] = "unk"
        /\ lcm_ret.kind = "return" => HandleKind(lcm_ret.model) = lcm_preferred
        /\ (lcm_ret.kind # "none" /\ lcm_preferred \notin {"onnx", "tflite"}) =>
               lcm_ret = Raise("ValueError") /\ attempts = <<>>

\* tflite was asked for a path that ends in .onnx, and a tflite handle came back.
C3_Witness ==
    /\ lcm_preferred = "tflite"
    /\ Lower(lcm_path.ext) = ".onnx"
    /\ lcm_ret.kind = "return"
    /\ HandleKind(lcm_ret.model) = "tflite"

(***************************************************************************)
(* C4                                                                      *)
(***************************************************************************)
\* C4 as stated: with a known model path and no override the backend kind
\* follows from the extension alone (.ez accelerator, .onnx onnx, .tflite and
\* .lite tflite), in the demo when --model gives the path and in
\* load_cpu_model (there on the CPU model files it is documented for).
C4_ExtensionSelectsKind ==
    /\ (DemoDetermined /\ args_model # NoPath /\ pc = "load_akida"
            /\ ExtKind(args_model.ext) # "other") =>
           backend = ExtKind(args_model.ext)
    /\ (~Truthy(lcm_preferred) /\ pc \in {"lcm_load", "lcm_return"}
            /\ ExtKind(lcm_path.ext) \in {"onnx", "tflite"}) =>
           lcm_backend = ExtKind(lcm_path.ext)

(***************************************************************************)
(* C5                                                                      *)
(***************************************************************************)
\* C5 as stated, in the vision and audio demo: a failed accelerator load is
\* caught and resolution advances; load_cpu_model is called for the CPU
\* runtimes before the run ends in the dummy, and the failure does not abort
\* the run.
C5_AdvancesAfterFailedLoad ==
    (entry = "demo" /\ ResolutionEnded /\ FailedAttempt("akida")) =>
        /\ raised = "none"
        /\ lcm_ret.kind # "none"

(***************************************************************************)
(* C6                                                                      *)
(***************************************************************************)
\* C6: first success wins.  No load is attempted after a successful one, so at
\* most one runtime object is constructed in a run; once resolution is over the
\* model held is the handle of that successful attempt and of nothing else, and
\* inference runs on it.
C6_FirstSuccessWins ==
    /\ \A i \in DOMAIN attempts : attempts[i].ok => i = Len(attempts)
    /\ ResolutionEnded =>
         /\ (attempts # <<>> /\ attempts[Len(attempts)].ok) =>
                HandleKind(model) = attempts[Len(attempts)].kind
         /\ HandleKind(model) # "none" =>
                /\ attempts # <<>>
                /\ attempts[Len(attempts)].ok
                /\ attempts[Len(attempts)].kind = HandleKind(model)
    /\ inferred = "akida" => model = AkidaModel
    /\ inferred = "cpu" => model.cls = "CpuModel"
    /\ inferred = "dummy" => HandleKind(model) = "none"

\* The accelerator model was loaded and inference has run on it.
C6_Witness ==
    /\ entry = "demo" /\ pc = "done"
    /\ Len(attempts) = 1 /\ attempts[1].kind = "akida" /\ attempts[1].ok
    /\ inferred = "akida" /\ exit_code = "0"

(***************************************************************************)
(* C7                                                                      *)
(***************************************************************************)
\* C7 as stated: without override, path and accelerator model, onnx is
\* preferred to tflite over all searched directories, and only a kind whose
\* availability probe succeeds is selected.  An .onnx file in any searched
\* directory whose probe has not failed means onnx is selected, and a kind
\* whose probe failed is selected nowhere.
C7_OnnxBeforeTflite ==
    (DemoDetermined /\ args_model = NoPath /\ ~(\E i \in DOMAIN cands : cands[i][1] = "akida")) =>
        /\ (pc = "load_akida" /\ OnnxDiscoverable /\ env["onnx_import"] \in {"unk", "ok"}) =>
               backend = "onnx"
        /\ \A i \in DOMAIN cands :
               /\ cands[i][1] = "onnx" => env["onnx_import"] \in {"unk", "ok"}
               /\ cands[i][1] = "tflite" =>
                      ~(env["tflite_runtime_import"] = "ImportError"
                        /\ env["tensorflow_import"] = "ImportError")

(***************************************************************************)
(* C8                                                                      *)
(***************************************************************************)
\* C8 as stated: from the moment the backend is determined through inference
\* the backend of the demo is one of accelerator ("akida"), onnx, tflite, dummy.
C8_BackendKindClosed ==
    DemoDetermined => backend \in {"akida", "onnx", "tflite", "dummy"}

SameLetter(a, b) ==
    \/ a = b
    \/ \E i \in DOMAIN UpperLetters : {a, b} = {UpperLetters[i], LowerLetters[i]}

\* marker occurs in machine as a substring, case ignored.
HasMarker(machine, marker) ==
    \E i \in 1..Len(machine) :
        /\ i + Len(marker) - 1 <= Len(machine)
        /\ \A k \in 1..Len(marker) : SameLetter(machine[i + k - 1], marker[k])

supports_accelerator(p) ==
    /\ p.system = "Linux"
    /\ \/ HasMarker(p.machine, <<"a", "r", "m">>)
       \/ HasMarker(p.machine, <<"a", "a", "r", "c", "h", "6", "4">>)

\* C11: every copy of is_linux_arm returns true exactly when the OS is Linux
\* and the machine string contains "arm" or "aarch64" in any case; the value
\* depends on (OS name, machine string) alone, so all copies agree on a host.
C11_CopiesAgreeWithContract ==
    \A c \in Copies : arm[c] # "unk" => arm[c] = Bool(supports_accelerator(plat))

\* All five copies have answered True on a Linux host whose machine string is
\* spelled in mixed case.
C11_Witness ==
    /\ plat.system = "Linux"
    /\ plat.machine = <<"A", "a", "r", "c", "H", "6", "4">>
    /\ \A c \in Copies : arm[c] = "True"

\* C12: every availability probe returns a boolean whatever the import does,
\* and never lets the exception of a failed import reach its caller.
C12_ProbesReturnBoolean ==
    \A p \in Probes : probed[p] \in {"unk", "True", "False"}

(***************************************************************************)
(* C13, C14: the handle                                                    *)
(***************************************************************************)
\* The recorded kind names the runtime of the wrapped object.
Paired(m) ==
    /\ m.backend \in {"onnx", "tflite"}
    /\ m.backend = "onnx" <=> m.obj = "InferenceSession"
    /\ m.backend = "tflite" <=> m.obj = "Interpreter"

PredictCalled == inferred \in {"_predict_onnx", "_predict_tflite", "raise"}

\* C13: a CpuModel that load_cpu_model returns records kind onnx exactly when
\* it wraps an ONNX inference session and kind tflite exactly when it wraps a
\* tflite interpreter, for every path and preferred_backend, and predict
\* calls leave kind and object as they were.
C13_KindMatchesObject ==
    /\ lcm_ret.kind = "return" => Paired(lcm_ret.model)
    /\ (entry = "lib" /\ model.cls = "CpuModel") => (Paired(model) /\ model = lcm_ret.model)

\* An .onnx path loaded under the tflite override, and predict called on the
\* handle.
C13_Witness ==
    /\ entry = "lib" /\ args_backend = "tflite" /\ Lower(args_model.ext) = ".onnx"
    /\ model = CpuModel("tflite", "Interpreter")
    /\ PredictCalled

\* C14 as stated: predict fails with the unsupported-backend error exactly
\* when the kind lies outside {akida, onnx, tflite, dummy}, and a handle of
\* kind akida delegates to the accelerator runtime.
C14_FailsOnlyOutsideEnumeration ==
    (model.cls = "CpuModel" /\ PredictCalled) =>
        /\ raised = "ValueError" <=> model.backend \notin {"akida", "onnx", "tflite", "dummy"}
        /\ model.backend = "akida" => inferred # "raise"

\* C14: CpuModel.predict raises ValueError exactly when the recorded kind is
\* neither onnx nor tflite (akida and dummy included); kind onnx runs the
\* onnx strategy and kind tflite the tflite strategy.
C14_FailsOutsideOnnxTflite ==
    (model.cls = "CpuModel" /\ PredictCalled) =>
        /\ raised = "ValueError" <=> model.backend \notin {"onnx", "tflite"}
        /\ model.backend = "onnx" <=> inferred = "_predict_onnx"
        /\ model.backend = "tflite" <=> inferred = "_predict_tflite"

\* predict was called on a handle of kind akida wrapping an accelerator
\* model, and raised ValueError.
C14_Witness ==
    /\ model = CpuModel("akida", "akida.Model")
    /\ PredictCalled /\ raised = "ValueError"

(***************************************************************************)
(* C15 - C19: preprocessing                                                *)
(***************************************************************************)
ImageReturned == pp_args.fn = "preprocess_image" /\ pp_ret.kind = "return"
AudioReturned == pp_args.fn = "preprocess_audio" /\ pp_ret.kind = "return"

\* C15: for target_shape = (height, width), square or not, and any source
\* size, preprocess_image returns shape (1, height, width, 3) in colour and
\* (1, 1, height, width) in grayscale, with either library.
C15_ShapeIsHeightWidth ==
    ImageReturned =>
        LET height == pp_args.target_shape[1]
            width == pp_args.target_shape[2]
        IN  pp_ret.shape = IF pp_args.grayscale THEN << 1, 1, height, width >>
                           ELSE << 1, height, width, 3 >>

\* round(n / d) as Python rounds: to the nearest integer, a half to the even
\* neighbour.
Round(n, d) ==
    LET f == n \div d
        r == n - f * d
    IN  IF 2 * r < d THEN f
        ELSE IF 2 * r > d THEN f + 1
        ELSE IF f % 2 = 0 THEN f ELSE f + 1

\* C16: for every duration > 0, every sample_rate and every source length,
\* preprocess_audio returns shape (1, n) with n = round(duration *
\* sample_rate), also when the product has a fraction of a half or more.
C16_LengthIsRounded ==
    (AudioReturned /\ pp_args.duration.given /\ pp_args.duration.q > 0) =>
        pp_ret.shape = << 1, Round(pp_args.duration.q * pp_args.sample_rate, DurUnit) >>

\* The trim-or-pad step of a call with a duration has run.
LengthForced ==
    /\ pp_args.fn = "preprocess_audio" /\ pp_args.duration.given
    /\ pp_pc \in {"normalize", "batch"} \/ pp_ret.kind = "return"

\* C17: forcing the length touches only the end of the waveform.  With L the
\* decoded length and T the target count, the first min(L, T) samples are the
\* first decoded samples in order, the samples after the L-th are zero, the
\* length is T, and normalization leaves the order of samples alone.
C17_OnlyTheEndChanges ==
    LengthForced =>
        LET L == Len(decoded)
            T == target_samples(pp_args)
        IN  /\ \A i \in 1..Min(L, Len(forced)) : forced[i] = decoded[i]
            /\ \A i \in (L + 1)..Len(forced) : forced[i] = 0
            /\ T >= 0 => Len(forced) = T
            /\ audio.samples = forced

\* A waveform of two samples, the first not zero, was padded to three and
\* returned.
C17_Witness ==
    /\ LengthForced /\ AudioReturned
    /\ Len(decoded) = 2 /\ decoded[1] # 0
    /\ Len(forced) = 3

\* C18: with normalize=true no value of the output exceeds 1.0 in magnitude,
\* for images of 8-bit pixels and for audio; audio is divided by its largest
\* magnitude only when that is not zero, and an all-zero waveform comes out
\* as it went in.
C18_NormalizedWithinUnit ==
    /\ (ImageReturned /\ pp_args.normalize) => img_array.hi <= img_array.den
    /\ (AudioReturned /\ pp_args.normalize) =>
          /\ audio.unit # "nan"
          /\ IF \A i \in DOMAIN audio.samples : audio.samples[i] = 0
             THEN audio.m = 0 /\ audio.unit # "1/max_val" /\ audio.samples = forced
             ELSE /\ audio.unit = "1/max_val" /\ audio.m > 0
                  /\ \A i \in DOMAIN audio.samples : Abs(audio.samples[i]) <= audio.m
                  /\ \E i \in DOMAIN audio.samples : Abs(audio.samples[i]) = audio.m

\* A waveform of zeros only, not empty, went through normalization and was
\* returned.
C18_Witness ==
    /\ AudioReturned /\ pp_args.normalize
    /\ Len(audio.samples) >= 2
    /\ \A i \in DOMAIN audio.samples : audio.samples[i] = 0

\* C19: a call of preprocess_audio with duration <= 0 ends in an error and
\* returns no tensor.
C19_NonPositiveDurationRejected ==
    (pp_args.fn = "preprocess_audio" /\ pp_args.duration.given /\ pp_args.duration.q <= 0
        /\ pp_pc = "done")
    => pp_ret.kind = "raise"

(***************************************************************************)
(* C20: what load_cpu_model lets out                                       *)
(***************************************************************************)
\* C20: a call of load_cpu_model ends in one of two ways, for every path,
\* preferred_backend and answer of the libraries: it returns a CpuModel, or
\* it raises RuntimeError; no other kind of error leaves it.
C20_ReturnsOrRaisesRuntimeError ==
    (entry = "lib" /\ pc = "done") =>
        \/ model.cls = "CpuModel" /\ raised = "none"
        \/ model = NoModel /\ raised = "RuntimeError"

(***************************************************************************)
(* C21: the manifest after a deploy                                        *)
(***************************************************************************)
DeploySucceeded == dep_pc = "done" /\ dep_ret = "True"

\* C21: the manifest maps each model_id to at most one entry; a successful
\* deploy of model_id m makes manifest["models"][m] the record of that
\* deploy, in place of any earlier one, and leaves the entry of every other
\* model_id as it was.
C21_OneEntryPerModelId ==
    DeploySucceeded =>
        /\ manifest.kind = "json" /\ manifest.has_models
        /\ manifest.models[dep_args.model_id] =
              [id |-> dep_args.model_id, name |-> dep_args.model_path.name,
               backend |-> dep_args.backend,
               path |-> [dir |-> "runtime/models", name |-> dep_args.model_path.name],
               deployedAt |-> calls]
        /\ \A o \in ModelIds \ {dep_args.model_id} :
              manifest.models[o] = before.manifest.models[o]

\* A second model_id was deployed while the manifest held an entry for the
\* first.
C21_Witness ==
    /\ DeploySucceeded
    /\ \E o \in ModelIds \ {dep_args.model_id} :
          /\ before.manifest.models[o] # NoEntry
          /\ manifest.models[o] = before.manifest.models[o]

(***************************************************************************)
(* C22: the exit status of the hardware diagnostic                         *)
(***************************************************************************)
\* C22: the exit status follows from three facts checked in order: 0 off
\* Linux ARM, and then neither the SDK nor the devices are probed; otherwise
\* 1 when the SDK import fails, and then no device is enumerated; otherwise
\* 2 when the enumeration fails or finds no device; otherwise 0.
C22_ExitStatusInOrder ==
    diag_pc = "done" =>
        IF ~supports_accelerator(plat) THEN
            diag_exit = "0" /\ diag_called = << "is_linux_arm" >>
        ELSE IF sdk.import # "ok" THEN
            /\ diag_exit = "1"
            /\ diag_called = << "is_linux_arm", "check_akida_import" >>
        ELSE
            /\ diag_exit = IF sdk.devices = "found" THEN "0" ELSE "2"
            /\ diag_called = << "is_linux_arm", "check_akida_import", "list_akida_devices" >>

\* On a Linux ARM host with the SDK the enumeration raised and the script
\* ended with 2.
C22_Witness ==
    /\ diag_pc = "done" /\ diag_exit = "2"
    /\ supports_accelerator(plat) /\ sdk.import = "ok" /\ sdk.devices = "raise"
    /\ Len(diag_called) = 3

(***************************************************************************)
(* C23: the demos call a real runtime only on a loaded model               *)
(***************************************************************************)
RealBackends == {"akida", "onnx", "tflite"}

\* A load of this run failed: load_cpu_model raised, or a constructor was
\* called and failed.
LoadFailed ==
    \/ lcm_ret.kind = "raise"
    \/ \E i \in DOMAIN attempts : ~attempts[i].ok

\* C23: in the vision and audio demo, at the inference step a backend of
\* akida, onnx or tflite implies that the model object is not null and came
\* from a successful load of that same backend; after every failed load the
\* inference is the dummy one.
C23_RealBackendHasLoadedModel ==
    /\ (entry = "demo" /\ pc = "infer" /\ backend \in RealBackends) =>
          /\ model # NoModel
          /\ backend = "akida" => model = AkidaModel
          /\ backend \in {"onnx", "tflite"} =>
                /\ model.cls = "CpuModel" /\ model.backend = backend
                /\ lcm_ret = Return(model)
          /\ \E i \in DOMAIN attempts :
                /\ attempts[i].ok
                /\ attempts[i].kind = backend
                /\ attempts[i].path = model_path
    /\ (entry = "demo" /\ pc = "infer" /\ LoadFailed) => backend \notin RealBackends
    /\ (entry = "demo" /\ pc = "done" /\ inferred # "none" /\ LoadFailed) =>
          inferred = "dummy"

\* The demo stands at the inference step with the backend tflite and the
\* handle load_cpu_model returned for it.
C23_Witness ==
    /\ entry = "demo" /\ pc = "infer"
    /\ backend = "tflite"
    /\ model = CpuModel("tflite", "Interpreter")

(***************************************************************************)
(* C24, C25: failed deploys and the files behind the entries               *)
(***************************************************************************)
DeployFailed == dep_pc = "done" /\ dep_ret = "False"

\* C24: a deploy that fails because the model file is missing, the backend
\* is not in the valid list or the copy fails returns False and leaves the
\* manifest as it was; after the two validation failures nothing was
\* created or copied in the runtime directory either.
C24_FailedDeployKeepsManifest ==
    /\ (dep_pc = "done" /\ dep_fail \in {"missing", "backend", "copy"}) =>
          /\ dep_ret = "False"
          /\ manifest = before.manifest
    /\ (dep_pc = "done" /\ dep_fail \in {"missing", "backend"}) =>
          /\ rt_models = before.rt_models
          /\ models_dir = before.models_dir
    /\ (dep_pc = "done" /\ SrcContent(dep_args.model_path) = "none") =>
          dep_fail = "missing"
    /\ (dep_pc = "done" /\ dep_args.backend \notin {"akida", "onnx", "tflite", "cpu"}) =>
          dep_fail \in {"missing", "backend"}

\* A copy failed while the manifest held an entry of an earlier deploy.
C24_Witness ==
    /\ DeployFailed /\ dep_fail = "copy"
    /\ \E m \in ModelIds : manifest.models[m] # NoEntry

\* C25: after any sequence of successful deploys the path of every manifest
\* entry names a runtime file whose content is the model deployed under the
\* model_id of the entry; deploying another model_id never changes that
\* file, also when two source files share a file name.
C25_EntryPathHoldsItsModel ==
    (/\ dep_pc \in {"idle", "done"} /\ dep_fail = "none"
     /\ \A n \in Names : rt_models[n] # "partial") =>
        \A m \in ModelIds :
            manifest.models[m] # NoEntry =>
                rt_models[manifest.models[m].path.name] = deployed[m]

====
